---- MODULE Spec2Model ----
(***************************************************************************)
(* hex-validator: the pipeline engine (src/core/orchestrator.ts) and the   *)
(* checks ("plugins") it schedules.  A run consumes the stages of a        *)
(* configuration in order; a parallel stage is executed by runParallel     *)
(* with a bounded pool, a sequential stage by runSequential.               *)
(***************************************************************************)
EXTENDS Integers, Sequences, FiniteSets, TLC

\* ------------------------------------------------------------------ bounds
\* length of the wide parallel stage (more checks than the pool ceiling)
WideLen == 9
\* options.maxWorkers is drawn from 0..MaxWorkersOpt (0: not given / falsy)
MaxWorkersOpt == 9

\* ------------------------------------------------------- program constants
\* hard ceiling of the worker pool
WorkerCeiling == 8
\* default pool: min(DefaultMaxPool, max(DefaultMinPool, cpus - 1))
DefaultMaxPool == 4
DefaultMinPool == 2

Max(a, b) == IF a >= b THEN a ELSE b
Min(a, b) == IF a <= b THEN a ELSE b

\* number of logical cpus reported by os.cpus()
CpuChoices == {2, 16}

\* ------------------------------------------------------------- data model
None == "none"
Statuses == {"pass", "warn", "fail", "skipped"}

Msg(level, text) == [level |-> level, message |-> text]

\* a PluginResult as a plugin returns it (absent optional fields are None,
\* an absent messages list is the empty sequence)
Result(name, status, messages, stdout, stderr, durationMs) ==
  [name |-> name, status |-> status, messages |-> messages,
   stdout |-> stdout, stderr |-> stderr, durationMs |-> durationMs,
   artifacts |-> None, stage |-> None]

\* what a call of plugin.run(ctx) ends with: a returned result or a thrown value
NoResult == Result(None, None, << >>, None, None, None)
NoError == [isError |-> FALSE, message |-> None, stack |-> None, text |-> None]
Returns(res) == [kind |-> "return", res |-> res, err |-> NoError]
Throws(err) == [kind |-> "throw", res |-> NoResult, err |-> err]

\* thrown values: an Error object (message, optional stack) or any other value
ErrorObj(message, stack) ==
  [isError |-> TRUE, message |-> message, stack |-> stack, text |-> message]
OtherThrown(text) ==
  [isError |-> FALSE, message |-> None, stack |-> None, text |-> text]

\* ------------------------------------------------------------------ files
Files == {"src/app/page.tsx", "README.md"}
\* /\.(ts|tsx)$/i and not /templates\//
IsTsFile(f) == f = "src/app/page.tsx"
\* /\.(ts|tsx|js|jsx|mjs|cjs|json|jsonc|css|scss)$/i
IsBiomeFile(f) == f = "src/app/page.tsx"
\* f.startsWith('src/')
IsSrcFile(f) == f = "src/app/page.tsx"
\* e2ePatterns of shouldRunE2E (/^src\/app\//, ...)
IsE2EFile(f) == f = "src/app/page.tsx"

NoTargets == << "undefined" >>

RECURSIVE Filter(_, _)
Filter(s, keep) ==
  IF s = << >> THEN << >>
  ELSE IF Head(s) \in keep THEN << Head(s) >> \o Filter(Tail(s), keep)
       ELSE Filter(Tail(s), keep)

\* ---------------------------------------------------------------- plugins
TSC == "Types (tsc)"
BIOME == "Biome"
DEPCRUISE == "Architecture (dependency-cruiser)"
PLAYWRIGHT == "E2E (playwright)"
RESULTMONAD == "Result Monad"
USERPLUGIN == "User plugin"

InstallHint == "not found: install hint"
ToolStdout == "tool stdout"
ToolStderr == "tool stderr"
PluginClock == "plugin clock"

\* variant: a missing tool is reported as a failure
tscPluginFailsWhenMissing(ctx, o) ==
  IF ~o.tool
    THEN Returns(Result("TypeScript", "fail", << >>, InstallHint, None, PluginClock))
  ELSE IF ctx.targetFiles # NoTargets
          /\ Filter(ctx.targetFiles, {f \in Files : IsTsFile(f)}) = << >>
    THEN Returns(Result(TSC, "skipped",
                        << Msg("info", "No TypeScript files in target paths") >>,
                        None, None, None))
  ELSE Returns(Result(TSC, IF o.code = 0 THEN "pass" ELSE "fail", << >>,
                      ToolStdout, ToolStderr, None))

\* tscPlugin.run: o.tool = toolInfo.available, o.code = exit code of tsc
tscPlugin(ctx, o) ==
  IF ~o.tool
    THEN Returns(Result("TypeScript", "skipped", << >>, InstallHint, None, PluginClock))
  ELSE IF ctx.targetFiles # NoTargets
          /\ Filter(ctx.targetFiles, {f \in Files : IsTsFile(f)}) = << >>
    THEN Returns(Result(TSC, "skipped",
                        << Msg("info", "No TypeScript files in target paths") >>,
                        None, None, None))
  ELSE Returns(Result(TSC, IF o.code = 0 THEN "pass" ELSE "fail", << >>,
                      ToolStdout, ToolStderr, None))

TscObs == {[tool |-> FALSE, code |-> 0]} \cup [tool : {TRUE}, code : {0, 2}]

\* biomePlugin.run.  o.tool: toolInfo.available; o.unchanged: every candidate's
\* hash equals the stored one; o.json: stdout carries a JSON summary line with
\* o.errors / o.warnings and diagnostics of levels o.diag; o.code: exit code;
\* o.textError / o.textWarn: the output contains "error" / "warn".
biomeCandidates(ctx) ==
  IF ctx.targetFiles # NoTargets
    THEN Filter(ctx.targetFiles, {f \in Files : IsBiomeFile(f)})
    ELSE Filter(IF ctx.scope = "staged" THEN ctx.stagedFiles ELSE ctx.changedFiles,
                {f \in Files : IsBiomeFile(f)})

biomePlugin(ctx, o) ==
  LET candidates == biomeCandidates(ctx)
      usesCache == ctx.targetFiles = NoTargets /\ ctx.scope # "full"
                   /\ candidates # << >>
      hasErrors == o.code # 0 \/ o.textError
  IN
  IF ~o.tool
    THEN Returns(Result(BIOME, "skipped", << >>, InstallHint, None, PluginClock))
  ELSE IF usesCache /\ o.unchanged
    THEN Returns(Result(BIOME, "skipped", << >>, None, None, None))
  ELSE IF o.json
    THEN Returns(Result(BIOME,
                        IF o.errors > 0 THEN "fail"
                        ELSE IF o.warnings > 0 THEN "warn" ELSE "pass",
                        [i \in 1..Len(o.diag) |-> Msg(o.diag[i], "diagnostic")],
                        ToolStdout, ToolStderr, None))
  ELSE Returns(Result(BIOME,
                      IF hasErrors THEN "fail"
                      ELSE IF o.textWarn THEN "warn" ELSE "pass",
                      IF o.code > 1
                        THEN << Msg("error",
                          "Biome configuration or execution error. Check stderr for details.") >>
                        ELSE << >>,
                      ToolStdout, ToolStderr, None))

BiomeObs ==
  {[tool |-> FALSE, unchanged |-> FALSE, json |-> FALSE, errors |-> 0,
    warnings |-> 0, diag |-> << >>, code |-> 0, textError |-> FALSE,
    textWarn |-> FALSE]}
  \cup [tool : {TRUE}, unchanged : {TRUE}, json : {FALSE}, errors : {0},
        warnings : {0}, diag : {<< >>}, code : {0}, textError : {FALSE},
        textWarn : {FALSE}]
  \cup {[tool |-> TRUE, unchanged |-> FALSE, json |-> TRUE, errors |-> j[1],
         warnings |-> j[2], diag |-> j[3], code |-> j[1], textError |-> FALSE,
         textWarn |-> FALSE] :
          j \in {<< 0, 0, << >> >>, << 1, 0, << "error" >> >>,
                 << 0, 1, << "warn" >> >>}}
  \cup [tool : {TRUE}, unchanged : {FALSE}, json : {FALSE}, errors : {0},
        warnings : {0}, diag : {<< >>}, code : {0, 1, 2},
        textError : {FALSE}, textWarn : BOOLEAN]

\* depCruiserPlugin.run.  o.tool: toolInfo.available; o.config: "project",
\* "preset" or "missing"; o.code: exit code; o.parsed: the output is JSON;
\* o.groups: the severities of the violation groups it parses to.
\* result.artifacts = { dependencyCruiser: { summary, ... } }
DepCruiserSummary == "dependencyCruiser summary"

depCruiserPlugin(ctx, o) ==
  LET changed == ctx.scope = "full"
                 \/ \E i \in 1..Len(ctx.changedFiles) : IsSrcFile(ctx.changedFiles[i])
      parsed == o.parsed
      groups == IF parsed THEN o.groups ELSE << >>
      hasErrors == \E i \in 1..Len(groups) : groups[i] = "error"
      failed == o.code # 0 \/ ~parsed \/ hasErrors
      messages ==
        [i \in 1..Len(groups) |-> Msg(groups[i], "rule violated")]
        \o (IF parsed THEN << >>
            ELSE << Msg("error", "Failed to parse dependency-cruiser JSON output."),
                    Msg("info", "First lines from dependency-cruiser output:") >>)
        \o (IF o.config = "preset"
              THEN << Msg("info", "Using hex-validator preset (no project config found).") >>
              ELSE << >>)
  IN
  IF ~o.tool
    THEN Returns(Result(DEPCRUISE, "skipped", << >>, InstallHint, None, PluginClock))
  ELSE IF o.config = "missing"
    THEN Returns(Result(DEPCRUISE, "skipped",
           << Msg("info", "dependency-cruiser.config.cjs not found. Skipping dependency checks.") >>,
           None, None, None))
  ELSE IF ~changed
    THEN Returns(Result(DEPCRUISE, "skipped", << >>, None, None, None))
  ELSE Returns([Result(DEPCRUISE, IF failed THEN "fail" ELSE "pass", messages,
                       IF groups # << >> THEN "legend" ELSE None, None, PluginClock)
                  EXCEPT !.artifacts = IF parsed THEN DepCruiserSummary ELSE None])

DepCruiserObs ==
  {[tool |-> FALSE, config |-> "project", code |-> 0, parsed |-> TRUE, groups |-> << >>],
   [tool |-> TRUE, config |-> "missing", code |-> 0, parsed |-> TRUE, groups |-> << >>],
   [tool |-> TRUE, config |-> "project", code |-> 1, parsed |-> FALSE, groups |-> << >>]}
  \cup [tool : {TRUE}, config : {"project", "preset"}, code : {0, 1},
        parsed : {TRUE}, groups : {<< >>, << "error" >>, << "warn" >>}]

\* playwrightPlugin.run.  o.tool: toolInfo.available; o.code: exit code of the
\* last attempt of the test command.
shouldRunE2E(ctx, mode) ==
  IF mode = "off" THEN FALSE
  ELSE IF mode = "always" THEN TRUE
  ELSE LET files == IF ctx.scope = "staged" THEN ctx.stagedFiles ELSE ctx.changedFiles
       IN \E i \in 1..Len(files) : IsE2EFile(files[i])

\* const e2eMode = ctx.config?.e2e ?? 'auto'
e2eMode(ctx) == IF ctx.config.e2e = None THEN "auto" ELSE ctx.config.e2e

playwrightPlugin(ctx, o) ==
  IF ~shouldRunE2E(ctx, e2eMode(ctx))
    THEN Returns(Result(PLAYWRIGHT, "skipped", << >>, None, None, None))
  ELSE IF ~o.tool
    THEN Returns(Result(PLAYWRIGHT, "skipped", << >>, InstallHint, None, PluginClock))
  ELSE Returns(Result(PLAYWRIGHT, IF o.code = 0 THEN "pass" ELSE "fail", << >>,
                      ToolStdout, ToolStderr, None))

\* the tool and the test command are observed only when the check runs them
PlaywrightObs(ctx) ==
  IF ~shouldRunE2E(ctx, e2eMode(ctx)) THEN {[tool |-> FALSE, code |-> 0]}
  ELSE {[tool |-> FALSE, code |-> 0]} \cup [tool : {TRUE}, code : {0, 1}]

\* resultMonadPlugin.run.  o.files: collectFiles found files; o.tsconfig: the
\* ts-morph Project could be built (it throws an Error otherwise);
\* o.findings: the levels of the findings of the rule.
resultMonadPlugin(ctx, o) ==
  LET hasErrors == \E i \in 1..Len(o.findings) : o.findings[i] = "error"
      hasWarnings == \E i \in 1..Len(o.findings) : o.findings[i] = "warn"
  IN
  IF ~o.files
    THEN Returns(Result(RESULTMONAD, "skipped", << >>, None, None, None))
  ELSE IF ~o.tsconfig
    THEN Throws(ErrorObj("File not found: tsconfig.json", "stack trace"))
  ELSE Returns(Result(RESULTMONAD,
                      IF hasErrors THEN "fail"
                      ELSE IF hasWarnings THEN "warn" ELSE "pass",
                      [i \in 1..Len(o.findings) |-> Msg(o.findings[i], "result monad rule")],
                      None, None, None))

ResultMonadObs ==
  {[files |-> FALSE, tsconfig |-> TRUE, findings |-> << >>],
   [files |-> TRUE, tsconfig |-> FALSE, findings |-> << >>]}
  \cup [files : {TRUE}, tsconfig : {TRUE},
        findings : {<< >>, << "warn" >>, << "info", "error" >>}]

\* a plugin supplied by the user's configuration: run(ctx) may resolve with a
\* result or reject with any value (o.thrown)
userPlugin(ctx, o) ==
  IF o.rejects THEN Throws(o.thrown)
  ELSE Returns(Result(USERPLUGIN, "pass", << >>, None, None, None))

UserObs ==
  {[rejects |-> FALSE, thrown |-> NoError]}
  \cup [rejects : {TRUE},
        thrown : {ErrorObj("boom", "stack trace"), ErrorObj("boom", None),
                  OtherThrown("boom")}]

\* the rule checks of the nextjs preset whose bodies are not translated: each
\* resolves with a result under its own name; they are taken on a repository
\* that holds none of the files they look for
PresetRuleChecks ==
  {"RSC Boundaries", "AST Audit (domain architecture)", "Server Directives",
   "Domain Type Purity", "Drizzle Patterns", "Architecture Fitness (Hexagonal)",
   "Canonical Module Structure", "Contract Test Coverage", "Mock Coverage",
   "Entity Patterns (DDD)", "Composition Patterns", "AI Guardrails"}

ruleCheck(p, ctx, o) == Returns(Result(p, o.status, << >>, None, None, None))

RuleCheckObs == {[status |-> "pass"]}

\* what the plugin named p can observe of its environment during run(ctx)
PluginObs(p, ctx) ==
  CASE p = TSC -> TscObs
    [] p \in PresetRuleChecks -> RuleCheckObs
    [] p = BIOME -> BiomeObs
    [] p = DEPCRUISE -> DepCruiserObs
    [] p = PLAYWRIGHT -> PlaywrightObs(ctx)
    [] p = RESULTMONAD -> ResultMonadObs
    [] OTHER -> UserObs

\* plugin.run(ctx) of the plugin named p under the observation o
PluginRun(p, ctx, o) ==
  CASE p = TSC -> tscPlugin(ctx, o)
    [] p \in PresetRuleChecks -> ruleCheck(p, ctx, o)
    [] p = BIOME -> biomePlugin(ctx, o)
    [] p = DEPCRUISE -> depCruiserPlugin(ctx, o)
    [] p = PLAYWRIGHT -> playwrightPlugin(ctx, o)
    [] p = RESULTMONAD -> resultMonadPlugin(ctx, o)
    [] OTHER -> userPlugin(ctx, o)

\* the plugin consults the tool prober (getCachedToolInfo) during run(ctx)
ProbesTool(p, ctx) ==
  \/ p \in {TSC, BIOME, DEPCRUISE}
  \/ p = PLAYWRIGHT /\ shouldRunE2E(ctx, e2eMode(ctx))

\* --------------------------------------------------------- configuration
\* a TaskSpec; id is the identity of the task object within its stage
Task(plugin, id) == [plugin |-> plugin, id |-> id]
Tasks(plugins) == [i \in 1..Len(plugins) |-> Task(plugins[i], i)]
Stage(name, parallel, failOnWarn, plugins) ==
  [name |-> name, parallel |-> parallel, failOnWarn |-> failOnWarn,
   tasks |-> Tasks(plugins)]

ConfigQuality ==
  [e2e |-> "auto",
   stages |-> << Stage("Code Quality", TRUE, FALSE, << BIOME, TSC >>),
                 Stage("Empty", TRUE, FALSE, << >>),
                 Stage("Tests", FALSE, FALSE, << PLAYWRIGHT >>) >>]
ConfigTypesFirst ==
  [e2e |-> "off",
   stages |-> << Stage("Types first", TRUE, TRUE, << TSC, RESULTMONAD, USERPLUGIN >>),
                 Stage("Architecture", TRUE, FALSE, << DEPCRUISE >>) >>]
ConfigRules ==
  [e2e |-> "always",
   stages |-> << Stage("Rules", FALSE, TRUE, << RESULTMONAD, USERPLUGIN >>),
                 Stage("Types", TRUE, FALSE, << TSC, USERPLUGIN >>) >>]
ConfigLenient ==
  [e2e |-> "off",
   stages |-> << Stage("Tests", FALSE, FALSE, << PLAYWRIGHT >>),
                 Stage("Rules", FALSE, FALSE, << USERPLUGIN, RESULTMONAD >>) >>]
ConfigWide ==
  [e2e |-> "off",
   stages |-> << Stage("Wide", TRUE, FALSE, [i \in 1..WideLen |-> PLAYWRIGHT]) >>]

\* nextjsPreset(): one parallel stage of fourteen rule checks, no e2e field
nextjsPreset ==
  [e2e |-> None,
   stages |-> << Stage("Architecture Checks", TRUE, FALSE,
                       << "RSC Boundaries", "AST Audit (domain architecture)", DEPCRUISE,
                          "Server Directives", "Domain Type Purity", "Drizzle Patterns",
                          "Architecture Fitness (Hexagonal)", "Canonical Module Structure",
                          "Contract Test Coverage", "Mock Coverage", RESULTMONAD,
                          "Entity Patterns (DDD)", "Composition Patterns",
                          "AI Guardrails" >>) >>]

\* configurations a validator.config file exports: one that sets no e2e mode
\* and one that sets it
ConfigTests ==
  [e2e |-> None,
   stages |-> << Stage("Types", TRUE, FALSE, << TSC >>),
                 Stage("Tests", FALSE, FALSE, << PLAYWRIGHT >>) >>]
ConfigAlwaysE2E ==
  [e2e |-> "always",
   stages |-> << Stage("Tests", FALSE, TRUE, << PLAYWRIGHT, USERPLUGIN >>) >>]
NoConfig == [e2e |-> None, stages |-> << >>]

SmallConfigs == {ConfigQuality, ConfigTypesFirst, ConfigRules, ConfigLenient}
\* the pool sizes that matter for stages of at most three checks
SmallWorkerOpts == {0, 1, 2}

\* RunOptions (scope, ci) with what git and the path resolver report
RunEnvs ==
  {[scope |-> "staged", ci |-> FALSE, targetFiles |-> NoTargets,
    stagedFiles |-> << "src/app/page.tsx" >>, upstreamFiles |-> << >>],
   [scope |-> "full", ci |-> TRUE, targetFiles |-> NoTargets,
    stagedFiles |-> << >>, upstreamFiles |-> << "src/app/page.tsx", "README.md" >>],
   [scope |-> "changed", ci |-> FALSE, targetFiles |-> << "README.md" >>,
    stagedFiles |-> << >>, upstreamFiles |-> << >>]}

\* ------------------------------------------------------- child processes
\* how a spawned process ends: it closes with an exit code, it closes without
\* one (killed by a signal or by the spawn timeout), or it cannot be spawned
Exited(code, stdout) == [kind |-> "exit", code |-> code, stdout |-> stdout]
Killed(stdout) == [kind |-> "killed", code |-> 0, stdout |-> stdout]
SpawnError == [kind |-> "error", code |-> 0, stdout |-> << >>]

\* -------------------------------------------------------- tool detection
\* how the probe process `<command> --version` ends: 'close' with a code,
\* 'close' without a code (killed, e.g. by the 5 s spawn timeout), or 'error'
ProbeEnd(kind, code, stdout, stderr) ==
  [kind |-> kind, code |-> code, stdout |-> stdout, stderr |-> stderr]

ProbeEnds ==
  {ProbeEnd("exit", 0, "Version 5.4.2", ""),
   ProbeEnd("exit", 0, "", "v1.9.4"),
   ProbeEnd("exit", 1, "Version 5.4.2", "not installed"),
   ProbeEnd("killed", 0, "", ""),
   ProbeEnd("error", 0, "", "")}

\* text.trim().match(/v?(\d+\.\d+\.\d+)/)?.[1]
versionMatch(text) ==
  IF text = "Version 5.4.2" THEN "5.4.2"
  ELSE IF text = "v1.9.4" THEN "1.9.4"
  ELSE None

ToolInfo(available, version, path) ==
  [available |-> available, version |-> version, path |-> path]

\* detectTool: resolves on 'close' (available iff code === 0) or on 'error'
detectToolNullCodeIsZero(command, end) ==
  IF end.kind = "killed" \/ (end.kind = "exit" /\ end.code = 0)
    THEN ToolInfo(TRUE,
                  IF versionMatch(end.stdout) # None THEN versionMatch(end.stdout)
                  ELSE versionMatch(end.stderr),
                  command)
    ELSE ToolInfo(FALSE, None, None)

detectTool(command, end) ==
  IF end.kind = "exit" /\ end.code = 0
    THEN ToolInfo(TRUE,
                  IF versionMatch(end.stdout) # None THEN versionMatch(end.stdout)
                  ELSE versionMatch(end.stderr),
                  command)
    ELSE ToolInfo(FALSE, None, None)

detectPnpmTool(toolName, end) == detectTool("pnpm exec " \o toolName, end)

\* variant: the key is the command alone
cacheKeyCommandOnly(command, cwd) == command

\* const key = `${command}:${cwd}`
cacheKey(command, cwd) == command \o ":" \o cwd

\* ------------------------------------------------------------------- git
\* variant: the exit code of the command is not read
gitIgnoresExitCode(end) ==
  [code |-> 0, stdout |-> end.stdout]

\* git(): resolves on 'close' with { code: code ?? 1, stdout }
git(end) ==
  [code |-> IF end.kind = "exit" THEN end.code ELSE 1, stdout |-> end.stdout]

\* stdout.split(/\r?\n/).map((s) => s.trim()).filter(Boolean); the output is
\* kept as its sequence of trimmed lines
splitLines(stdout) == SelectSeq(stdout, LAMBDA l : l # "")

\* getStagedFiles: git diff --name-only --cached
getStagedFiles(repo) ==
  LET staged == git(repo.staged)
  IN IF staged.code # 0 THEN << >> ELSE splitLines(staged.stdout)

\* getChangedFilesAgainstUpstream: the diff against the merge base with the
\* upstream branch, or against HEAD~1 when there is no upstream
getChangedFilesAgainstUpstream(repo) ==
  LET upstream == git(repo.upstream)
  IN IF upstream.code # 0 \/ splitLines(upstream.stdout) = << >>
       THEN LET diff == git(repo.diffPrev)
            IN IF diff.code # 0 THEN << >> ELSE splitLines(diff.stdout)
       ELSE LET mergeBase == git(repo.mergeBase)
                diff == IF splitLines(mergeBase.stdout) = << >>
                          THEN git(repo.diffPrevHead) ELSE git(repo.diffBase)
            IN IF diff.code # 0 THEN << >> ELSE splitLines(diff.stdout)

\* the git commands getStagedFiles and getChangedFilesAgainstUpstream spawn
gitCommandsRun(repo, scope) ==
  {"staged"} \cup
  (IF scope = "staged" THEN {}
   ELSE {"upstream"} \cup
        (IF git(repo.upstream).code # 0 \/ splitLines(git(repo.upstream).stdout) = << >>
           THEN {"diffPrev"}
           ELSE {"mergeBase"} \cup
                (IF splitLines(git(repo.mergeBase).stdout) = << >>
                   THEN {"diffPrevHead"} ELSE {"diffBase"})))

\* the command whose output the changed-files list is read from
gitListCommand(repo) ==
  CHOOSE c \in {"diffPrev", "diffPrevHead", "diffBase"} : c \in gitCommandsRun(repo, "full")

GitRepo(staged, upstream, mergeBase, diffBase, diffPrev, diffPrevHead) ==
  [staged |-> staged, upstream |-> upstream, mergeBase |-> mergeBase,
   diffBase |-> diffBase, diffPrev |-> diffPrev, diffPrevHead |-> diffPrevHead]

NotARepository == Exited(128, << >>)

\* working directories: outside a git tree; a branch that tracks an upstream;
\* a branch without upstream; a checkout whose git commands are interrupted
\* or fail half way; a machine without git
GitRepos ==
  {GitRepo(NotARepository, NotARepository, NotARepository, NotARepository,
           NotARepository, NotARepository),
   GitRepo(Exited(0, << "src/app/page.tsx", "" >>), Exited(0, << "origin/main", "" >>),
           Exited(0, << "abc123", "" >>), Exited(0, << "src/app/page.tsx", "README.md", "" >>),
           Exited(0, << "README.md", "" >>), Exited(0, << "README.md", "" >>)),
   GitRepo(Exited(0, << >>), Exited(128, << >>), Exited(128, << >>), Exited(128, << >>),
           Exited(0, << "README.md", "" >>), Exited(0, << "README.md", "" >>)),
   GitRepo(Killed(<< "src/app/page.tsx" >>), Exited(0, << "origin/main", "" >>),
           Exited(1, << >>), Exited(0, << "src/app/page.tsx", "" >>),
           Exited(0, << "README.md", "" >>), Exited(128, << "README.md" >>)),
   GitRepo(SpawnError, SpawnError, SpawnError, SpawnError, SpawnError, SpawnError)}

\* ---------------------------------------------------------------- cli.ts
\* the command line: cmd is the first argument without a dash (None: none),
\* every flag holds the text after '=' (None: flag not given), maxWorkers holds
\* << Number(v) >> (<< >>: flag not given), paths holds the comma-separated
\* segments of --paths; CI is Boolean(process.env.CI)
Argv(cmd, scope, e2e, report, maxWorkers, paths, help, version, ci) ==
  [cmd |-> cmd, scope |-> scope, e2e |-> e2e, report |-> report,
   maxWorkers |-> maxWorkers, paths |-> paths, help |-> help,
   version |-> version, CI |-> ci]

NoArgv == Argv(None, None, None, None, << >>, << >>, FALSE, FALSE, FALSE)

\* parseArgs: a flag value outside the accepted ones leaves the option unset
parseArgs(a) ==
  [cmd |-> IF a.cmd = None THEN "full" ELSE a.cmd,
   opts |-> [scope |-> IF a.scope \in {"staged", "changed", "full"} THEN a.scope ELSE None,
             e2e |-> IF a.e2e \in {"auto", "always", "off"} THEN a.e2e ELSE None,
             report |-> IF a.report \in {"summary", "json", "junit"} THEN a.report ELSE None,
             maxWorkers |-> a.maxWorkers,
             paths |-> a.paths,
             help |-> a.help,
             version |-> a.version]]

\* buildOptions(mode, opts); the file lists are filled in by runValidation
buildOptions(mode, a, opts, ncpu) ==
  [scope |-> IF opts.scope # None THEN opts.scope
             ELSE IF mode = "fast" THEN "staged" ELSE "full",
   e2e |-> IF opts.e2e # None THEN opts.e2e ELSE "off",
   report |-> IF opts.report # None THEN opts.report ELSE "summary",
   maxWorkers |-> IF opts.maxWorkers # << >> THEN Max(1, opts.maxWorkers[1])
                  ELSE Max(1, Min(DefaultMaxPool, Max(DefaultMinPool, ncpu - 1))),
   ci |-> (mode = "ci" \/ a.CI),
   paths |-> IF opts.paths # << >> THEN SelectSeq(opts.paths, LAMBDA q : q # "")
             ELSE NoTargets,
   targetFiles |-> NoTargets, stagedFiles |-> << >>, upstreamFiles |-> << >>]

\* RunOptions of a direct call of runValidation
ApiOptions(scope, ci, maxW, targetFiles, stagedFiles, upstreamFiles) ==
  [scope |-> scope, e2e |-> "off", report |-> "summary", maxWorkers |-> maxW,
   ci |-> ci, paths |-> NoTargets, targetFiles |-> targetFiles,
   stagedFiles |-> stagedFiles, upstreamFiles |-> upstreamFiles]

\* resolvePathsToFiles: a path that does not exist is skipped with a warning,
\* a directory is walked, a file is taken
IsDir(q) == q = "src"
RECURSIVE resolvePathsToFiles(_)
resolvePathsToFiles(paths) ==
  IF paths = << >> THEN << >>
  ELSE (IF IsDir(Head(paths)) THEN << "src/app/page.tsx" >>
        ELSE IF Head(paths) \in Files THEN << Head(paths) >>
        ELSE << >>)
       \o resolvePathsToFiles(Tail(paths))

pathWarnings(paths) ==
  [i \in 1..Len(SelectSeq(paths, LAMBDA q : ~IsDir(q) /\ q \notin Files)) |->
     "Warning: Path does not exist"]

\* a validator.config file: ext is None when cwd holds none; direct: importing
\* a .ts file as it is succeeds; imports: importing the (transpiled) module
\* succeeds; valid: validateConfig accepts the exported value
ConfigFile(ext, direct, imports, valid, cfg) ==
  [ext |-> ext, direct |-> direct, imports |-> imports, valid |-> valid,
   config |-> cfg]

NoConfigFile == ConfigFile(None, FALSE, FALSE, FALSE, NoConfig)

\* loadUserConfig(cwd): null without a file, the exported configuration when
\* it has the expected shape, an Error otherwise
loadUserConfig(f) ==
  IF f.ext = None THEN [kind |-> "null", config |-> NoConfig, err |-> NoError]
  ELSE IF f.ext = "ts" /\ f.direct /\ f.valid
    THEN [kind |-> "config", config |-> f.config, err |-> NoError]
  ELSE IF ~f.imports
    THEN [kind |-> "throw", config |-> NoConfig,
          err |-> ErrorObj("Cannot find module", "stack trace")]
  ELSE IF ~f.valid
    THEN [kind |-> "throw", config |-> NoConfig,
          err |-> ErrorObj(IF f.ext = "ts" THEN "Invalid validator.config.ts shape"
                           ELSE "Invalid validator.config.* shape", "stack trace")]
  ELSE [kind |-> "config", config |-> f.config, err |-> NoError]

\* String(err) of main().catch
String(err) == IF err.isError THEN "Error: " \o err.message ELSE err.text

VARIABLES
  config,      \* run -> ValidatorConfig given to runValidation
  options,     \* RunOptions and the file lists the run is given
  cpus,        \* os.cpus().length
  pc,          \* run -> position of runValidation
  stageIdx,    \* run -> index of the stage of the for loop
  queue,       \* run -> runParallel/runSequential: tasks not started yet
  running,     \* run -> runParallel: the running counter
  inflight,    \* run -> tasks whose promise is pending
  out,         \* run -> results of the stage in completion order
  results,     \* run -> the results array of runValidation
  ok,          \* run -> the ok flag of the returned value
  started,     \* run -> history: <<stage index, task id>> in start order
  observed,    \* run -> history: <<stage index, task id>> :> what the check observed
  returned     \* run -> history: <<stage index, task id>> :> outcome of plugin.run

\* the command-line driver (cli.ts) around runValidation
VARIABLES
  argv,        \* the flags of the command line as parseArgs splits them
  configFile,  \* what loadUserConfig finds in cwd
  gitRepo,     \* what each git command of the run ends with
  cliPc,       \* position of main(); "api" when runValidation is called directly
  exitCode,    \* << >> while the process runs, << code >> once it has exited
  stderrOut,   \* what was written to process.stderr
  reporter     \* the reporter main() called (None: none yet)

cliVars == << argv, configFile, gitRepo, cliPc, exitCode, stderrOut, reporter >>

\* the tool prober (getCachedToolInfo) and its callers
VARIABLES
  toolCache,      \* the Map of the module: key -> ToolInfo
  toolCalls,      \* caller -> the call of getCachedToolInfo it is in
  callLog,        \* history: the calls in the order they were made
  probeLog,       \* history: the probes that ended, with what they resolved to
  completedCalls  \* history: << command, cwd >> of the calls that returned

toolVars == << toolCache, toolCalls, callLog, probeLog, completedCalls >>

\* the repository, the cache file and the runs of the Biome check
VARIABLES
  fileHash,   \* file -> sha1 of its content (None: the file cannot be read)
  cacheFile,  \* .cache/hex-validator.json: readable or not, the biome partition
  lastRun     \* history: what the last run of biomePlugin read, spawned and wrote

biomeVars == << fileHash, cacheFile, lastRun >>

\* the source tree and the runs of the rule checks that read it
VARIABLES
  faultyFiles,  \* the files of the tree whose content breaks a rule
  lastScan      \* history: the files the last rule check read and reported

scanVars == << faultyFiles, lastScan >>

\* the cache directory, the checks that use the cache and the calls of
\* loadCache and saveCache
VARIABLES
  disk,      \* .cache exists, the content of hex-validator.json and of the tmp file
  checks,    \* check -> its position and the cache it loaded when it started
  save,      \* the call of saveCache in progress (pc "none": none)
  lastLoad,  \* history: the last call of loadCache
  lastSave,  \* history: the last call of saveCache that returned
  crashed    \* the process died

diskVars == << disk, checks, save, lastLoad, lastSave, crashed >>

\* a check that retries its test command
VARIABLES
  retryEnv,    \* the text of VALIDATOR_RETRIES (None: unset)
  retryCheck,  \* the check that is running (None: none)
  attemptLog,  \* how each launch of the test command ended
  retryResult  \* the status the check returned (None: not yet)

retryVars == << retryEnv, retryCheck, attemptLog, retryResult >>

\* the state outside runValidation
extVars == << cliVars, toolVars, biomeVars, scanVars, diskVars, retryVars >>

vars == << config, options, cpus, pc, stageIdx, queue, running, inflight, out,
           results, ok, started, observed, returned, extVars >>

Runs == DOMAIN pc

\* runValidation is called directly: there is no driver around it
NoDriver ==
  /\ argv = NoArgv
  /\ configFile = NoConfigFile
  /\ gitRepo = GitRepo(NotARepository, NotARepository, NotARepository,
                       NotARepository, NotARepository, NotARepository)
  /\ cliPc = "api"
  /\ exitCode = << >>
  /\ stderrOut = << >>
  /\ reporter = None

\* the callers of the tool prober: checks running at the same time
MaxCallers == 2
Callers == 1..MaxCallers
\* the number of calls of getCachedToolInfo a behaviour makes
MaxCalls == 3

IdleCall == [pc |-> "idle", command |-> None, cwd |-> None, ret |-> ToolInfo(FALSE, None, None)]

\* nothing has called the prober: the Map is empty
NoProber ==
  /\ toolCache = << >>
  /\ toolCalls = [c \in Callers |-> IdleCall]
  /\ callLog = << >>
  /\ probeLog = << >>
  /\ completedCalls = {}

\* the contents a file of the repository goes through, as hashFile sees them
Contents == {"sha1 of the draft", "sha1 of the edit", "sha1 of the autofix"}

\* loadCache() of a missing or unparsable file: { plugins: {} }
EmptyCacheFile == [readable |-> FALSE, biome |-> << >>]

NoBiomeRun ==
  [ran |-> FALSE, scope |-> None, ci |-> FALSE, targeted |-> FALSE,
   usesCache |-> FALSE, changed |-> << >>, spawned |-> << >>,
   available |-> FALSE, toolFailed |-> FALSE, status |-> None,
   stored |-> << >>, storedAfter |-> << >>]

\* the Biome check has not run: the files are as written, there is no cache
NoBiome ==
  /\ fileHash = [f \in Files |-> "sha1 of the draft"]
  /\ cacheFile = EmptyCacheFile
  /\ lastRun = NoBiomeRun

NoScanRun ==
  [ran |-> FALSE, plugin |-> None, scope |-> None, targets |-> NoTargets,
   examined |-> {}, findings |-> {}, status |-> None]

\* no rule check has run
NoScan ==
  /\ faultyFiles = {}
  /\ lastScan = NoScanRun

\* the content of a file: absent, a complete JSON document with its
\* partitions (plugin -> file -> hash), or a truncated document
Content(kind, plugins) == [kind |-> kind, plugins |-> plugins]
Missing == Content("missing", << >>)
Truncated == Content("truncated", << >>)
Json(plugins) == Content("json", plugins)

CacheChecks == {"biome", "user"}
NoSave == [pc |-> "none", by |-> None, payload |-> Missing, before |-> Missing]
NoLoad == [called |-> FALSE, content |-> Missing, cache |-> << >>, stderr |-> << >>]
NoSaved ==
  [returned |-> FALSE, by |-> None, before |-> Missing, payload |-> Missing,
   written |-> FALSE, stderr |-> << >>]
IdleCheck == [pc |-> "idle", memo |-> << >>]

\* nothing has touched the cache: no .cache directory
NoDisk ==
  /\ disk = [dir |-> FALSE, file |-> Missing, tmp |-> Missing]
  /\ checks = [c \in CacheChecks |-> IdleCheck]
  /\ save = NoSave
  /\ lastLoad = NoLoad
  /\ lastSave = NoSaved
  /\ crashed = FALSE

\* no retrying check has run
NoRetry ==
  /\ retryEnv = None
  /\ retryCheck = None
  /\ attemptLog = << >>
  /\ retryResult = None

\* runValidation has not been called
NoRun ==
  /\ config = << NoConfig >>
  /\ options = ApiOptions(None, FALSE, 0, NoTargets, << >>, << >>)
  /\ pc = << "idle" >>
  /\ stageIdx = << 1 >>
  /\ queue = << << >> >>
  /\ running = << 0 >>
  /\ inflight = << {} >>
  /\ out = << << >> >>
  /\ results = << << >> >>
  /\ ok = << FALSE >>
  /\ started = << << >> >>
  /\ observed = << << >> >>
  /\ returned = << << >> >>

\* the PluginContext built by runValidation
PluginContext(r) ==
  [ci |-> options.ci, scope |-> options.scope,
   stagedFiles |-> options.stagedFiles,
   changedFiles |-> IF options.scope = "staged" THEN options.stagedFiles
                    ELSE options.upstreamFiles,
   targetFiles |-> options.targetFiles,
   config |-> config[r]]

\* variant: the pool is not capped
maxWorkersNoCeiling(opt, ncpu) ==
  Max(1, IF opt # 0 THEN opt ELSE Min(DefaultMaxPool, Max(DefaultMinPool, ncpu - 1)))

\* Math.max(1, Math.min(options.maxWorkers || default, 8))
maxWorkers(opt, ncpu) ==
  Max(1, Min(IF opt # 0 THEN opt
             ELSE Min(DefaultMaxPool, Max(DefaultMinPool, ncpu - 1)),
             WorkerCeiling))

\* variant: the stack trace is pushed as a second error-level finding
runTaskStackAsError(plugin, outcome) ==
  IF outcome.kind = "return"
    THEN [outcome.res EXCEPT !.durationMs = "measured"]
    ELSE LET err == outcome.err
             msg == IF err.isError THEN err.message ELSE "Plugin crashed"
             hasStack == err.isError /\ err.stack # None
         IN [name |-> plugin, status |-> "fail",
             messages |-> << Msg("error", msg) >>
                          \o (IF hasStack THEN << Msg("error", err.stack) >> ELSE << >>),
             stdout |-> None,
             stderr |-> IF hasStack THEN err.stack ELSE None,
             durationMs |-> "measured", artifacts |-> None, stage |-> None]

\* variant: the result is rebuilt from the fields the reporters print
runTaskDropsArtifacts(plugin, outcome) ==
  IF outcome.kind = "return"
    THEN [outcome.res EXCEPT !.durationMs = "measured", !.artifacts = None]
    ELSE LET err == outcome.err
             msg == IF err.isError THEN err.message ELSE "Plugin crashed"
             hasStack == err.isError /\ err.stack # None
         IN [name |-> plugin, status |-> "fail",
             messages |-> << Msg("error", msg) >>
                          \o (IF hasStack THEN << Msg("info", err.stack) >> ELSE << >>),
             stdout |-> None,
             stderr |-> IF hasStack THEN err.stack ELSE None,
             durationMs |-> "measured", artifacts |-> None, stage |-> None]

\* runTask: the result of one check, crashes converted into a fail result
runTask(plugin, outcome) ==
  IF outcome.kind = "return"
    THEN [outcome.res EXCEPT !.durationMs = "measured"]
    ELSE LET err == outcome.err
             msg == IF err.isError THEN err.message ELSE "Plugin crashed"
             hasStack == err.isError /\ err.stack # None
         IN [name |-> plugin, status |-> "fail",
             messages |-> << Msg("error", msg) >>
                          \o (IF hasStack THEN << Msg("info", err.stack) >> ELSE << >>),
             stdout |-> None,
             stderr |-> IF hasStack THEN err.stack ELSE None,
             durationMs |-> "measured", artifacts |-> None, stage |-> None]

\* sortResultsByTaskOrder: the index of the first task of that plugin name,
\* 0 when no task has the name
order(tasks, name) ==
  IF \E i \in 1..Len(tasks) : tasks[i].plugin = name
    THEN CHOOSE i \in 1..Len(tasks) :
           /\ tasks[i].plugin = name
           /\ \A j \in 1..(i - 1) : tasks[j].plugin # name
    ELSE 0

\* the comparator of the sort
compareResults(a, b, tasks) ==
  LET aIdx == order(tasks, a.name)
      bIdx == order(tasks, b.name)
  IN IF aIdx # 0 /\ bIdx # 0 THEN aIdx - bIdx
     ELSE IF aIdx # 0 THEN -1
     ELSE IF bIdx # 0 THEN 1
     ELSE 0

\* Array.prototype.sort is stable: insert x after the last element not greater
RECURSIVE insertSorted(_, _, _)
insertSorted(sorted, x, tasks) ==
  IF sorted = << >> THEN << x >>
  ELSE LET last == sorted[Len(sorted)]
       IN IF compareResults(last, x, tasks) <= 0
            THEN Append(sorted, x)
            ELSE Append(insertSorted(SubSeq(sorted, 1, Len(sorted) - 1), x, tasks), last)

RECURSIVE sortFrom(_, _, _)
sortFrom(sorted, rest, tasks) ==
  IF rest = << >> THEN sorted
  ELSE sortFrom(insertSorted(sorted, Head(rest), tasks), Tail(rest), tasks)

sortResultsByTaskOrder(res, tasks) == sortFrom(<< >>, res, tasks)

\* variant: { stage: stage.name, ...r } -- the result's own field wins
stampStageOwnFieldWins(res, stage) == res

\* r => ({ ...r, stage: stage.name })
stampStage(res, stage) == [res EXCEPT !.stage = stage.name]

\* variant: the policy ignores failOnWarn
stageAbortsIgnoresWarn(stage, stageResults) ==
  \E i \in 1..Len(stageResults) : stageResults[i].status = "fail"

\* variant: the policy treats every stage as failOnWarn
stageAbortsOnAnyWarn(stage, stageResults) ==
  \E i \in 1..Len(stageResults) : stageResults[i].status \in {"fail", "warn"}

\* the stage policy of runValidation
stageAborts(stage, stageResults) ==
  LET failed == \E i \in 1..Len(stageResults) : stageResults[i].status = "fail"
      warned == \E i \in 1..Len(stageResults) : stageResults[i].status = "warn"
  IN failed \/ (stage.failOnWarn /\ warned)

CurStage(r) == config[r].stages[stageIdx[r]]
TaskAt(r, id) ==
  LET ts == CurStage(r).tasks
  IN ts[CHOOSE i \in 1..Len(ts) : ts[i].id = id]

Upd(f, r, v) == [f EXCEPT ![r] = v]

\* ------------------------------------------------------------------ Init
InitRun(cfgs, workerOpts) ==
  /\ \E c \in cfgs : config = << c >>
  /\ \E e \in RunEnvs, w \in workerOpts :
       options = ApiOptions(e.scope, e.ci, w, e.targetFiles, e.stagedFiles,
                            e.upstreamFiles)
  /\ cpus \in CpuChoices
  /\ pc = << "loop" >>
  /\ stageIdx = << 1 >>
  /\ queue = << << >> >>
  /\ running = << 0 >>
  /\ inflight = << {} >>
  /\ out = << << >> >>
  /\ results = << << >> >>
  /\ ok = << FALSE >>
  /\ started = << << >> >>
  /\ observed = << << >> >>
  /\ returned = << << >> >>
  /\ NoDriver
  /\ NoProber
  /\ NoBiome
  /\ NoScan
  /\ NoDisk
  /\ NoRetry

Init ==
  \/ InitRun(SmallConfigs, SmallWorkerOpts)
  \/ InitRun({ConfigWide}, 0..MaxWorkersOpt)

\* two runs of the same checks under the same options: the second run is
\* given the configuration with the checks of its first stage permuted
ConfigTwin ==
  [e2e |-> "off",
   stages |-> << Stage("Checks", TRUE, FALSE, << TSC, USERPLUGIN, PLAYWRIGHT >>),
                 Stage("Tests", FALSE, FALSE, << PLAYWRIGHT >>) >>]

permuteTasks(cfg, perm) ==
  [cfg EXCEPT !.stages[1].tasks = [i \in 1..Len(@) |-> @[perm[i]]]]

InitTwin ==
  /\ \E perm \in Permutations(1..Len(ConfigTwin.stages[1].tasks)) :
       config = << ConfigTwin, permuteTasks(ConfigTwin, perm) >>
  /\ \E w \in {0, 1} :
       options = ApiOptions("full", TRUE, w, NoTargets, << >>,
                            << "src/app/page.tsx" >>)
  /\ cpus \in CpuChoices
  /\ pc = << "loop", "loop" >>
  /\ stageIdx = << 1, 1 >>
  /\ queue = << << >>, << >> >>
  /\ running = << 0, 0 >>
  /\ inflight = << {}, {} >>
  /\ out = << << >>, << >> >>
  /\ results = << << >>, << >> >>
  /\ ok = << FALSE, FALSE >>
  /\ started = << << >>, << >> >>
  /\ observed = << << >>, << >> >>
  /\ returned = << << >>, << >> >>
  /\ NoDriver
  /\ NoProber
  /\ NoBiome
  /\ NoScan
  /\ NoDisk
  /\ NoRetry

\* --------------------------------------------------------------- actions
\* for (const stage of config.stages): wrap the tasks and call the runner
BeginStage(r) ==
  /\ pc[r] = "loop"
  /\ stageIdx[r] <= Len(config[r].stages)
  /\ queue' = Upd(queue, r, [i \in 1..Len(CurStage(r).tasks) |-> CurStage(r).tasks[i].id])
  /\ running' = Upd(running, r, 0)
  /\ out' = Upd(out, r, << >>)
  /\ pc' = Upd(pc, r, IF CurStage(r).parallel THEN "pump" ELSE "seq")
  /\ UNCHANGED << config, options, cpus, stageIdx, inflight, results, ok,
                  started, observed, returned >>
  /\ UNCHANGED extVars

\* variant: pump() resolves as soon as nothing is queued
PumpEnterIgnoresRunning(r) ==
  /\ pc[r] = "pump"
  /\ pc' = Upd(pc, r, IF queue[r] = << >> THEN "closing" ELSE "pumpLoop")
  /\ UNCHANGED << config, options, cpus, stageIdx, queue, running, inflight,
                  out, results, ok, started, observed, returned >>
  /\ UNCHANGED extVars

\* pump(): resolve when nothing is queued or running, else enter the while loop
PumpEnter(r) ==
  /\ pc[r] = "pump"
  /\ pc' = Upd(pc, r, IF queue[r] = << >> /\ running[r] = 0 THEN "closing"
                      ELSE "pumpLoop")
  /\ UNCHANGED << config, options, cpus, stageIdx, queue, running, inflight,
                  out, results, ok, started, observed, returned >>
  /\ UNCHANGED extVars

\* one iteration of while (running < maxWorkers && queue.length > 0)
PumpStart(r) ==
  /\ pc[r] = "pumpLoop"
  /\ running[r] < maxWorkers(options.maxWorkers, cpus)
  /\ queue[r] # << >>
  /\ queue' = Upd(queue, r, Tail(queue[r]))
  /\ running' = Upd(running, r, running[r] + 1)
  /\ inflight' = Upd(inflight, r, inflight[r] \cup {Head(queue[r])})
  /\ started' = Upd(started, r, Append(started[r], << stageIdx[r], Head(queue[r]) >>))
  /\ UNCHANGED << config, options, cpus, pc, stageIdx, out, results, ok, observed, returned >>
  /\ UNCHANGED extVars

\* the while condition is false: pump returns and the event loop waits
PumpExit(r) ==
  /\ pc[r] = "pumpLoop"
  /\ ~(running[r] < maxWorkers(options.maxWorkers, cpus) /\ queue[r] # << >>)
  /\ pc' = Upd(pc, r, "wait")
  /\ UNCHANGED << config, options, cpus, stageIdx, queue, running, inflight,
                  out, results, ok, started, observed, returned >>
  /\ UNCHANGED extVars

\* a check observes what it observed in the other run of the same checks
SameCheckSameObs(r, id, o) ==
  \A r2 \in Runs :
    << stageIdx[r], id >> \in DOMAIN observed[r2] => observed[r2][<< stageIdx[r], id >>] = o

\* the check of task id ends under observation o: the wrapped task resolves
\* with runTask's result, which the runner pushes to out
Settle(r, id, o) ==
  LET plugin == TaskAt(r, id).plugin
      outcome == PluginRun(plugin, PluginContext(r), o)
  IN /\ out' = Upd(out, r, Append(out[r], runTask(plugin, outcome)))
     /\ observed' = Upd(observed, r, (<< stageIdx[r], id >> :> o) @@ observed[r])
     /\ returned' = Upd(returned, r, (<< stageIdx[r], id >> :> outcome) @@ returned[r])

\* the promise of an in-flight task of a parallel stage settles: the .then
\* callback pushes the result, decrements running and calls pump()
TaskSettles(r, id) ==
  /\ pc[r] = "wait"
  /\ id \in inflight[r]
  /\ \E o \in PluginObs(TaskAt(r, id).plugin, PluginContext(r)) :
       SameCheckSameObs(r, id, o) /\ Settle(r, id, o)
  /\ running' = Upd(running, r, running[r] - 1)
  /\ inflight' = Upd(inflight, r, inflight[r] \ {id})
  /\ pc' = Upd(pc, r, "pump")
  /\ UNCHANGED << config, options, cpus, stageIdx, queue, results, ok, started >>
  /\ UNCHANGED extVars

\* variant: the next task is called without awaiting the previous one
SeqStartWithoutAwait(r) ==
  /\ pc[r] \in {"seq", "seqWait"}
  /\ queue[r] # << >>
  /\ queue' = Upd(queue, r, Tail(queue[r]))
  /\ inflight' = Upd(inflight, r, inflight[r] \cup {Head(queue[r])})
  /\ started' = Upd(started, r, Append(started[r], << stageIdx[r], Head(queue[r]) >>))
  /\ pc' = Upd(pc, r, "seqWait")
  /\ UNCHANGED << config, options, cpus, stageIdx, running, out, results, ok, observed, returned >>
  /\ UNCHANGED extVars

\* runSequential: for (const t of tasks) -- call the next task, or return out
SeqStart(r) ==
  /\ pc[r] = "seq"
  /\ queue[r] # << >>
  /\ queue' = Upd(queue, r, Tail(queue[r]))
  /\ inflight' = Upd(inflight, r, inflight[r] \cup {Head(queue[r])})
  /\ started' = Upd(started, r, Append(started[r], << stageIdx[r], Head(queue[r]) >>))
  /\ pc' = Upd(pc, r, "seqWait")
  /\ UNCHANGED << config, options, cpus, stageIdx, running, out, results, ok, observed, returned >>
  /\ UNCHANGED extVars

\* variant: the loop is left at the first fail result
SeqReturnAtFirstFail(r) ==
  /\ pc[r] = "seq"
  /\ (queue[r] = << >> \/ \E i \in 1..Len(out[r]) : out[r][i].status = "fail")
  /\ pc' = Upd(pc, r, "closing")
  /\ UNCHANGED << config, options, cpus, stageIdx, queue, running, inflight,
                  out, results, ok, started, observed, returned >>
  /\ UNCHANGED extVars

\* runSequential: the for loop is exhausted, return out
SeqReturn(r) ==
  /\ pc[r] = "seq"
  /\ queue[r] = << >>
  /\ pc' = Upd(pc, r, "closing")
  /\ UNCHANGED << config, options, cpus, stageIdx, queue, running, inflight,
                  out, results, ok, started, observed, returned >>
  /\ UNCHANGED extVars

\* runSequential: out.push(await t())
SeqSettles(r, id) ==
  /\ pc[r] = "seqWait"
  /\ id \in inflight[r]
  /\ \E o \in PluginObs(TaskAt(r, id).plugin, PluginContext(r)) :
       SameCheckSameObs(r, id, o) /\ Settle(r, id, o)
  /\ inflight' = Upd(inflight, r, inflight[r] \ {id})
  /\ pc' = Upd(pc, r, "seq")
  /\ UNCHANGED << config, options, cpus, stageIdx, queue, running, results, ok, started >>
  /\ UNCHANGED extVars

\* the stage's results are back: order them, stamp the stage name, append
\* them to results and apply the stage policy
CloseStage(r) ==
  /\ pc[r] = "closing"
  /\ LET stage == CurStage(r)
         orderedStageResults ==
           IF stage.parallel THEN sortResultsByTaskOrder(out[r], stage.tasks)
           ELSE out[r]
         stageResultsWithMeta ==
           [i \in 1..Len(orderedStageResults) |->
              stampStage(orderedStageResults[i], stage)]
     IN /\ results' = Upd(results, r, results[r] \o stageResultsWithMeta)
        /\ IF stageAborts(stage, stageResultsWithMeta)
             THEN /\ pc' = Upd(pc, r, "done")
                  /\ ok' = Upd(ok, r, FALSE)
                  /\ UNCHANGED stageIdx
             ELSE /\ pc' = Upd(pc, r, "loop")
                  /\ stageIdx' = Upd(stageIdx, r, stageIdx[r] + 1)
                  /\ UNCHANGED ok
  /\ UNCHANGED << config, options, cpus, queue, running, inflight, out,
                  started, observed, returned >>
  /\ UNCHANGED extVars

\* the for loop is exhausted: return { ok: true, results }
ReturnOk(r) ==
  /\ pc[r] = "loop"
  /\ stageIdx[r] > Len(config[r].stages)
  /\ pc' = Upd(pc, r, "done")
  /\ ok' = Upd(ok, r, TRUE)
  /\ UNCHANGED << config, options, cpus, stageIdx, queue, running, inflight,
                  out, results, started, observed, returned >>
  /\ UNCHANGED extVars

Next ==
  \/ \E r \in Runs : BeginStage(r)
  \/ \E r \in Runs : PumpEnter(r)
  \/ \E r \in Runs : PumpStart(r)
  \/ \E r \in Runs : PumpExit(r)
  \/ \E r \in Runs : \E id \in inflight[r] : TaskSettles(r, id)
  \/ \E r \in Runs : SeqStart(r)
  \/ \E r \in Runs : SeqReturn(r)
  \/ \E r \in Runs : \E id \in inflight[r] : SeqSettles(r, id)
  \/ \E r \in Runs : CloseStage(r)
  \/ \E r \in Runs : ReturnOk(r)

Spec == Init /\ [][Next]_vars

SpecTwin == InitTwin /\ [][Next]_vars

\* every started check returns and the event loop runs every callback that
\* is ready: no step of the run stays enabled forever without being taken
\* stages of two and three checks, an empty stage, one or two worker slots
InitFair == InitRun({ConfigQuality, ConfigTypesFirst}, {1, 2})

SpecFair == InitFair /\ [][Next]_vars /\ WF_vars(Next)

\* -------------------------------------------------- the command-line driver
\* command lines: hex-validate; hex-validate fast --e2e=always --report=json
\* --max-workers=1; hex-validate ci --scope=changed --e2e=sometimes
\* --report=xml --max-workers=2; hex-validate full --e2e=auto --report=junit
\* --max-workers=1 --paths=README.md,,missing.ts (with CI set); --help;
\* --version; init
ArgvChoices ==
  {Argv(None, None, None, None, << >>, << >>, FALSE, FALSE, FALSE),
   Argv("fast", None, "always", "json", << 1 >>, << >>, FALSE, FALSE, FALSE),
   Argv("ci", "changed", "sometimes", "xml", << 2 >>, << >>, FALSE, FALSE, FALSE),
   Argv("full", None, "auto", "junit", << 1 >>, << "README.md", "", "missing.ts" >>,
        FALSE, FALSE, TRUE),
   Argv(None, None, None, None, << >>, << >>, TRUE, FALSE, FALSE),
   Argv("fast", None, None, None, << >>, << >>, FALSE, TRUE, FALSE),
   Argv("init", None, None, None, << >>, << >>, FALSE, FALSE, FALSE)}

\* what cwd holds: no configuration file, a valid .mjs, a valid .ts that only
\* loads once transpiled, a valid .ts that loads directly, a .mjs and a .ts of
\* the wrong shape, a .js whose import throws
ConfigFiles ==
  {NoConfigFile,
   ConfigFile("mjs", FALSE, TRUE, TRUE, ConfigTests),
   ConfigFile("ts", FALSE, TRUE, TRUE, ConfigAlwaysE2E),
   ConfigFile("ts", TRUE, TRUE, TRUE, ConfigQuality),
   ConfigFile("mjs", FALSE, TRUE, FALSE, NoConfig),
   ConfigFile("ts", TRUE, TRUE, FALSE, NoConfig),
   ConfigFile("js", FALSE, FALSE, FALSE, NoConfig)}

\* the process has just started main(); the preset's stage of fourteen checks
\* is run with one worker
InitCli ==
  /\ \E a \in ArgvChoices, f \in ConfigFiles :
       /\ f.ext = None => a.maxWorkers = << 1 >>
       /\ argv = a
       /\ configFile = f
  /\ gitRepo \in GitRepos
  /\ cpus \in CpuChoices
  /\ cliPc = "main"
  /\ exitCode = << >>
  /\ stderrOut = << >>
  /\ reporter = None
  /\ NoRun
  /\ NoProber
  /\ NoBiome
  /\ NoScan
  /\ NoDisk
  /\ NoRetry

schedVars == << config, options, cpus, pc, stageIdx, queue, running, inflight,
                out, results, ok, started, observed, returned >>

\* main(): parseArgs; --help and --version print and return; init runs
\* initProject and exits 0 (an exception of initProject reaches main().catch);
\* any other command builds the run options
MainParse ==
  /\ cliPc = "main"
  /\ LET parsed == parseArgs(argv)
         mode == IF parsed.cmd = "fast" THEN "fast"
                 ELSE IF parsed.cmd = "ci" THEN "ci" ELSE "full"
     IN IF parsed.opts.help \/ parsed.opts.version
          THEN /\ cliPc' = "exited"
               /\ exitCode' = << 0 >>
               /\ UNCHANGED << options, stderrOut >>
        ELSE IF parsed.cmd = "init"
          THEN /\ cliPc' = "exited"
               /\ \E initialised \in BOOLEAN :
                    IF initialised
                      THEN exitCode' = << 0 >> /\ UNCHANGED stderrOut
                      ELSE /\ exitCode' = << 1 >>
                           /\ stderrOut' = Append(stderrOut, String(ErrorObj("EACCES", None)))
               /\ UNCHANGED options
        ELSE /\ options' = buildOptions(mode, argv, parsed.opts, cpus)
             /\ cliPc' = "load"
             /\ UNCHANGED << exitCode, stderrOut >>
  /\ UNCHANGED << argv, configFile, gitRepo, reporter, config, cpus, pc, stageIdx,
                  queue, running, inflight, out, results, ok, started, observed,
                  returned, toolVars, biomeVars, scanVars, diskVars, retryVars >>

\* main(): config = await loadUserConfig(cwd) ?? nextjsPreset(), then the call
\* of runValidation; an Error thrown by the loader reaches main().catch, which
\* writes it to stderr and exits 1
MainLoadConfig ==
  /\ cliPc = "load"
  /\ LET loaded == loadUserConfig(configFile)
     IN IF loaded.kind = "throw"
          THEN /\ stderrOut' = Append(stderrOut, String(loaded.err))
               /\ exitCode' = << 1 >>
               /\ cliPc' = "exited"
               /\ UNCHANGED << config, pc >>
          ELSE /\ config' = << IF loaded.kind = "null" THEN nextjsPreset
                               ELSE loaded.config >>
               /\ pc' = << "start" >>
               /\ cliPc' = "validating"
               /\ UNCHANGED << exitCode, stderrOut >>
  /\ UNCHANGED << argv, configFile, gitRepo, reporter, options, cpus, stageIdx,
                  queue, running, inflight, out, results, ok, started, observed,
                  returned, toolVars, biomeVars, scanVars, diskVars, retryVars >>

\* runValidation up to its for loop: resolve the target paths, ask git for the
\* staged and the changed files, build the context.  git() installs no
\* 'error' listener: when git cannot be spawned the process dies of the
\* unhandled 'error' event
BuildContext(r) ==
  /\ pc[r] = "start"
  /\ LET targetFiles == IF options.paths = NoTargets THEN NoTargets
                        ELSE resolvePathsToFiles(options.paths)
         warnings == IF options.paths = NoTargets THEN << >>
                     ELSE pathWarnings(options.paths)
     IN IF \E c \in gitCommandsRun(gitRepo, options.scope) : gitRepo[c].kind = "error"
          THEN /\ pc' = Upd(pc, r, "crashed")
               /\ cliPc' = "exited"
               /\ exitCode' = << 1 >>
               /\ stderrOut' = stderrOut \o warnings \o << "Unhandled 'error' event" >>
               /\ UNCHANGED options
          ELSE /\ options' = [options EXCEPT
                                !.targetFiles = targetFiles,
                                !.stagedFiles = getStagedFiles(gitRepo),
                                !.upstreamFiles =
                                  IF options.scope = "staged" THEN << >>
                                  ELSE getChangedFilesAgainstUpstream(gitRepo)]
               /\ pc' = Upd(pc, r, "loop")
               /\ stderrOut' = stderrOut \o warnings
               /\ UNCHANGED << cliPc, exitCode >>
  /\ UNCHANGED << argv, configFile, gitRepo, reporter, config, cpus, stageIdx,
                  queue, running, inflight, out, results, ok, started, observed,
                  returned, toolVars, biomeVars, scanVars, diskVars, retryVars >>

\* variant: the exit code ignores the ok flag
MainReportExitsZero ==
  /\ cliPc = "validating"
  /\ pc[1] = "done"
  /\ reporter' = IF options.report \in {"json", "junit"} THEN options.report
                 ELSE "terminal"
  /\ exitCode' = << 0 >>
  /\ cliPc' = "exited"
  /\ UNCHANGED << argv, configFile, gitRepo, stderrOut, schedVars, toolVars, biomeVars, scanVars, diskVars, retryVars >>

\* main(): runValidation has returned { ok, results }: call the reporter of
\* options.report and process.exit(ok ? 0 : 1)
MainReport ==
  /\ cliPc = "validating"
  /\ pc[1] = "done"
  /\ reporter' = IF options.report \in {"json", "junit"} THEN options.report
                 ELSE "terminal"
  /\ exitCode' = << IF ok[1] THEN 0 ELSE 1 >>
  /\ cliPc' = "exited"
  /\ UNCHANGED << argv, configFile, gitRepo, stderrOut, schedVars, toolVars, biomeVars, scanVars, diskVars, retryVars >>

NextCli ==
  \/ MainParse
  \/ MainLoadConfig
  \/ \E r \in Runs : BuildContext(r)
  \/ \E r \in Runs : BeginStage(r)
  \/ \E r \in Runs : PumpEnter(r)
  \/ \E r \in Runs : PumpStart(r)
  \/ \E r \in Runs : PumpExit(r)
  \/ \E r \in Runs : \E id \in inflight[r] : TaskSettles(r, id)
  \/ \E r \in Runs : SeqStart(r)
  \/ \E r \in Runs : SeqReturn(r)
  \/ \E r \in Runs : \E id \in inflight[r] : SeqSettles(r, id)
  \/ \E r \in Runs : CloseStage(r)
  \/ \E r \in Runs : ReturnOk(r)
  \/ MainReport

SpecCli == InitCli /\ [][NextCli]_vars

\* ------------------------------------------------------- the tool prober
\* the tools the checks ask for, and the working directories of the runs
ToolCommands == {"biome", "tsc"}
ToolCwds == {"/repo", "/repo/packages/app"}

InitTools ==
  /\ NoRun
  /\ cpus = CHOOSE n \in CpuChoices : \A m \in CpuChoices : n <= m
  /\ NoDriver
  /\ NoProber
  /\ NoBiome
  /\ NoScan
  /\ NoDisk
  /\ NoRetry

\* getCachedToolInfo(command, cwd), the entry is in the Map: return it
CallHit(c, command, cwd) ==
  /\ toolCalls[c].pc \in {"idle", "returned"}
  /\ Len(callLog) < MaxCalls
  /\ cacheKey(command, cwd) \in DOMAIN toolCache
  /\ toolCalls' = [toolCalls EXCEPT ![c] =
                     [pc |-> "returned", command |-> command, cwd |-> cwd,
                      ret |-> toolCache[cacheKey(command, cwd)]]]
  /\ callLog' = Append(callLog, [command |-> command, cwd |-> cwd, spawned |-> FALSE])
  /\ completedCalls' = completedCalls \cup {<< command, cwd >>}
  /\ UNCHANGED << toolCache, probeLog, schedVars, cliVars, biomeVars, scanVars, diskVars, retryVars >>

\* getCachedToolInfo(command, cwd), no entry: spawn the probe and await it
CallMiss(c, command, cwd) ==
  /\ toolCalls[c].pc \in {"idle", "returned"}
  /\ Len(callLog) < MaxCalls
  /\ cacheKey(command, cwd) \notin DOMAIN toolCache
  /\ toolCalls' = [toolCalls EXCEPT ![c] =
                     [pc |-> "probing", command |-> command, cwd |-> cwd,
                      ret |-> ToolInfo(FALSE, None, None)]]
  /\ callLog' = Append(callLog, [command |-> command, cwd |-> cwd, spawned |-> TRUE])
  /\ UNCHANGED << toolCache, probeLog, completedCalls, schedVars, cliVars, biomeVars, scanVars, diskVars, retryVars >>

\* the probe of caller c ends: detectPnpmTool resolves, the continuation of
\* getCachedToolInfo stores the info under the key and returns it
ProbeSettles(c, end) ==
  /\ toolCalls[c].pc = "probing"
  /\ LET command == toolCalls[c].command
         cwd == toolCalls[c].cwd
         info == detectPnpmTool(command, end)
     IN /\ toolCache' = (cacheKey(command, cwd) :> info) @@ toolCache
        /\ toolCalls' = [toolCalls EXCEPT ![c].pc = "returned", ![c].ret = info]
        /\ probeLog' = Append(probeLog, [command |-> command, cwd |-> cwd,
                                         end |-> end, info |-> info])
        /\ completedCalls' = completedCalls \cup {<< command, cwd >>}
  /\ UNCHANGED << callLog, schedVars, cliVars, biomeVars, scanVars, diskVars, retryVars >>

NextTools ==
  \/ \E c \in Callers, command \in ToolCommands, cwd \in ToolCwds : CallHit(c, command, cwd)
  \/ \E c \in Callers, command \in ToolCommands, cwd \in ToolCwds : CallMiss(c, command, cwd)
  \/ \E c \in Callers, end \in ProbeEnds : ProbeSettles(c, end)

SpecTools == InitTools /\ [][NextTools]_vars

\* ------------------------------------------ the Biome check and its cache
BiomeCwd == "/repo"

BiomeCtx(scope, ci, targetFiles, stagedFiles, changedFiles) ==
  [ci |-> ci, scope |-> scope, stagedFiles |-> stagedFiles,
   changedFiles |-> changedFiles, targetFiles |-> targetFiles, config |-> NoConfig]

\* the contexts the check is run in: a pre-commit run, the same under CI, a
\* run on the changed files, a full run, a run on explicit paths, a staged
\* run with nothing staged
BiomeContexts ==
  {BiomeCtx("staged", FALSE, NoTargets, << "src/app/page.tsx" >>, << "src/app/page.tsx" >>),
   BiomeCtx("staged", TRUE, NoTargets, << "src/app/page.tsx", "README.md" >>,
            << "src/app/page.tsx", "README.md" >>),
   BiomeCtx("changed", FALSE, NoTargets, << >>, << "README.md", "src/app/page.tsx" >>),
   BiomeCtx("full", TRUE, NoTargets, << >>, << "src/app/page.tsx" >>),
   BiomeCtx("changed", FALSE, << "src/app/page.tsx" >>, << >>, << "src/app/page.tsx" >>),
   BiomeCtx("staged", FALSE, NoTargets, << >>, << >>)}

\* if (!ctx.targetFiles && ctx.scope !== 'full' && candidates.length > 0)
biomeUsesCache(ctx) ==
  ctx.targetFiles = NoTargets /\ ctx.scope # "full" /\ biomeCandidates(ctx) # << >>

\* loadCache().plugins.biome || {}: an unreadable file loads as { plugins: {} }
loadBiomePartition(file) == IF file.readable THEN file.biome ELSE << >>

\* candidates.filter((f) => !prev[f] || prev[f] !== (hashFile(abs) || ''))
biomeChanged(ctx, prev, hashes) ==
  SelectSeq(biomeCandidates(ctx),
            LAMBDA f : f \notin DOMAIN prev
                       \/ prev[f] # (IF hashes[f] = None THEN "" ELSE hashes[f]))

\* if (!ctx.targetFiles && ctx.scope === 'staged' && candidates.length > 0):
\* biome check --write on the candidates
biomeAutofix(ctx) ==
  ctx.targetFiles = NoTargets /\ ctx.scope = "staged" /\ biomeCandidates(ctx) # << >>

\* for (const f of candidates) { const h = hashFile(abs); if (h) partition[f] = h }
storeHashes(prev, ctx, hashes) ==
  LET candidates == {biomeCandidates(ctx)[i] : i \in 1..Len(biomeCandidates(ctx))}
      hashed == {f \in candidates : hashes[f] # None}
  IN [f \in DOMAIN prev \cup hashed |-> IF f \in hashed THEN hashes[f] ELSE prev[f]]

\* observations of BiomeObs: the tool is missing; every candidate is
\* unchanged; the check command reports no finding, an error, a warning (JSON
\* reporter), or exits with code 1 or 2 without JSON output
BiomeOb(tool, unchanged, json, errors, warnings, diag, code) ==
  [tool |-> tool, unchanged |-> unchanged, json |-> json, errors |-> errors,
   warnings |-> warnings, diag |-> diag, code |-> code, textError |-> FALSE,
   textWarn |-> FALSE]
BiomeMissingObs == BiomeOb(FALSE, FALSE, FALSE, 0, 0, << >>, 0)
BiomeUnchangedObs == BiomeOb(TRUE, TRUE, FALSE, 0, 0, << >>, 0)
BiomeClean == BiomeOb(TRUE, FALSE, TRUE, 0, 0, << >>, 0)
BiomeToolObs ==
  {BiomeClean,
   BiomeOb(TRUE, FALSE, TRUE, 1, 0, << "error" >>, 1),
   BiomeOb(TRUE, FALSE, TRUE, 0, 1, << "warn" >>, 0),
   BiomeOb(TRUE, FALSE, FALSE, 0, 0, << >>, 1),
   BiomeOb(TRUE, FALSE, FALSE, 0, 0, << >>, 2)}

\* the probe of an installed and of a missing biome
BiomeInstalled == ProbeEnd("exit", 0, "Version 5.4.2", "")
BiomeNotInstalled == ProbeEnd("exit", 1, "Version 5.4.2", "not installed")

InitBiome ==
  /\ NoRun
  /\ cpus = CHOOSE n \in CpuChoices : \A m \in CpuChoices : n <= m
  /\ NoDriver
  /\ NoProber
  /\ NoBiome
  /\ NoScan
  /\ NoDisk
  /\ NoRetry

\* the rest of biomePlugin.run(ctx) once the tool is known: the cache
\* lookup, the autofix, the check command and the update of the cache.
\* o0: what the check command reports; fixed: --write rewrote the candidates;
\* saved: saveCache managed to write the file
BiomeRunWith(ctx, memo, toolInfo, o0, fixed, saved) ==
  LET key == cacheKey("biome", BiomeCwd)
      candidates == {biomeCandidates(ctx)[i] : i \in 1..Len(biomeCandidates(ctx))}
      usesCache == biomeUsesCache(ctx)
      prev == loadBiomePartition(cacheFile)
      changed == biomeChanged(ctx, prev, fileHash)
      skips == usesCache /\ changed = << >>
      runsTool == toolInfo.available /\ ~skips
      autofix == runsTool /\ biomeAutofix(ctx)
      hashesAfter ==
        IF autofix /\ fixed
          THEN [f \in Files |-> IF f \in candidates /\ fileHash[f] # None
                                  THEN "sha1 of the autofix" ELSE fileHash[f]]
          ELSE fileHash
      o == IF ~toolInfo.available THEN BiomeMissingObs
           ELSE IF skips THEN BiomeUnchangedObs ELSE o0
      stores == runsTool /\ usesCache
      outcome == biomePlugin(ctx, o)
  IN /\ toolCache' = IF memo THEN toolCache ELSE (key :> toolInfo) @@ toolCache
     /\ fileHash' = hashesAfter
     /\ cacheFile' = IF stores /\ saved
                       THEN [readable |-> TRUE,
                             biome |-> storeHashes(prev, ctx, hashesAfter)]
                       ELSE cacheFile
     /\ lastRun' =
          [ran |-> TRUE, scope |-> ctx.scope, ci |-> ctx.ci,
           targeted |-> ctx.targetFiles # NoTargets,
           usesCache |-> usesCache,
           changed |-> IF usesCache THEN changed ELSE << >>,
           spawned |-> (IF memo THEN << >> ELSE << "biome --version" >>)
                       \o (IF autofix THEN << "biome check --write" >> ELSE << >>)
                       \o (IF runsTool THEN << "biome check" >> ELSE << >>),
           available |-> toolInfo.available,
           toolFailed |-> (runsTool /\ (o.code # 0 \/ o.errors > 0 \/ o.textError)),
           status |-> outcome.res.status,
           stored |-> prev,
           storedAfter |-> loadBiomePartition(cacheFile')]
     /\ UNCHANGED << callLog, probeLog, toolCalls, completedCalls, schedVars, cliVars, scanVars, diskVars, retryVars >>

\* biomePlugin.run(ctx) from its first line to its return: the tool is asked
\* of the prober (a probe is spawned when the Map has no entry), then the
\* check goes on with what the environment lets it observe
BiomeRun(ctx) ==
  LET key == cacheKey("biome", BiomeCwd)
      memo == key \in DOMAIN toolCache
      skips == biomeUsesCache(ctx)
               /\ biomeChanged(ctx, loadBiomePartition(cacheFile), fileHash) = << >>
  IN \E end \in IF memo THEN {BiomeInstalled} ELSE {BiomeInstalled, BiomeNotInstalled} :
       LET toolInfo == IF memo THEN toolCache[key] ELSE detectPnpmTool("biome", end)
           runsTool == toolInfo.available /\ ~skips
       IN \E o0 \in IF runsTool THEN BiomeToolObs ELSE {BiomeClean} :
          \E fixed \in IF runsTool /\ biomeAutofix(ctx) THEN BOOLEAN ELSE {FALSE} :
          \E saved \in IF runsTool /\ biomeUsesCache(ctx) THEN BOOLEAN ELSE {TRUE} :
            BiomeRunWith(ctx, memo, toolInfo, o0, fixed, saved)

\* the developer edits a file, or takes the edit back
EditFile(f) ==
  /\ fileHash' = [fileHash EXCEPT ![f] = IF @ = "sha1 of the draft"
                                          THEN "sha1 of the edit"
                                          ELSE "sha1 of the draft"]
  /\ UNCHANGED << cacheFile, lastRun, toolVars, schedVars, cliVars, scanVars, diskVars, retryVars >>

\* the file is removed or made unreadable: hashFile returns null
LoseFile(f) ==
  /\ fileHash[f] # None
  /\ fileHash' = [fileHash EXCEPT ![f] = None]
  /\ UNCHANGED << cacheFile, lastRun, toolVars, schedVars, cliVars, scanVars, diskVars, retryVars >>

\* the process ends and the next run starts in a new one: the Map of the
\* prober is empty again, the cache file stays
NewProcess ==
  /\ toolCache # << >>
  /\ toolCache' = << >>
  /\ UNCHANGED << toolCalls, callLog, probeLog, completedCalls, biomeVars,
                  schedVars, cliVars, scanVars, diskVars, retryVars >>

NextBiome ==
  \/ \E ctx \in BiomeContexts : BiomeRun(ctx)
  \/ \E f \in Files : EditFile(f)
  \/ \E f \in Files : LoseFile(f)
  \/ NewProcess

SpecBiome == InitBiome /\ [][NextBiome]_vars

\* ------------------------------------------------- rule checks and files
\* the source tree the rule checks read; tsconfig.json includes all of it
DomainInvoice == "src/modules/billing/core/domain/invoice.ts"
DomainMoney == "src/modules/billing/core/domain/money.ts"
ServerActions == "src/modules/billing/server/actions.ts"
TreeFiles == {DomainInvoice, DomainMoney, ServerActions, "README.md"}
\* project.getSourceFiles(): the TypeScript files of the tree
ProjectSourceFiles == {DomainInvoice, DomainMoney, ServerActions}

\* f.startsWith('src/modules/') && (f.endsWith('.ts') || f.endsWith('.tsx'))
IsModuleSource(f) == f \in {DomainInvoice, DomainMoney, ServerActions}
\* f.includes('/core/domain/'); "./" in front of a path does not change it
IsDomainFile(f) == f \in {DomainInvoice, DomainMoney, "./" \o DomainInvoice}
\* f.endsWith('.ts') && (f.includes('/server/') || f.includes('/infrastructure/adapters/'))
IsServerFile(f) == f = ServerActions

\* path.relative(root, path.resolve(ctx.cwd, file)) with root = ctx.cwd:
\* the path without "./" in front
relativeToRoot(file) ==
  IF file = "./" \o DomainInvoice THEN DomainInvoice ELSE file

RECURSIVE relativeAll(_)
relativeAll(files) ==
  IF files = << >> THEN << >>
  ELSE << relativeToRoot(Head(files)) >> \o relativeAll(Tail(files))

SeqToSet(s) == {s[i] : i \in 1..Len(s)}

\* collectFiles(ctx, root, patterns, filterFn) of the shared utilities, as
\* serverDirectivesPlugin calls it; the result as a set
collectFiles(ctx) ==
  IF ctx.targetFiles # NoTargets
  THEN {f \in SeqToSet(relativeAll(ctx.targetFiles)) : IsServerFile(f)}
  ELSE IF ctx.scope = "full"
  THEN {f \in TreeFiles : IsServerFile(f)}
  ELSE LET baseline == IF ctx.scope = "staged" THEN ctx.stagedFiles
                       ELSE ctx.changedFiles
       IN {f \in SeqToSet(relativeAll(baseline)) : IsServerFile(f)}

\* the collectFiles(ctx, root) local to the Result Monad check: the scope is
\* read before the target files
collectModuleFiles(ctx) ==
  IF ctx.scope = "full"
  THEN {f \in TreeFiles : IsModuleSource(f)}
  ELSE LET baseline == IF ctx.targetFiles # NoTargets THEN ctx.targetFiles
                       ELSE IF ctx.scope = "staged" THEN ctx.stagedFiles
                       ELSE ctx.changedFiles
       IN {f \in SeqToSet(relativeAll(baseline)) : IsModuleSource(f)}

\* status of a rule check from the files it reports
scanStatus(findings) == IF findings = {} THEN "pass" ELSE "fail"

Scan(plugin, ctx, examined) ==
  [ran |-> TRUE, plugin |-> plugin, scope |-> ctx.scope,
   targets |-> IF ctx.targetFiles = NoTargets THEN NoTargets
               ELSE relativeAll(ctx.targetFiles),
   examined |-> examined, findings |-> examined \cap faultyFiles,
   status |-> IF examined = {} THEN "skipped"
              ELSE scanStatus(examined \cap faultyFiles)]

\* serverDirectivesPlugin.run(ctx): reads the collected files that exist
serverDirectivesScan(ctx) ==
  Scan("Server Directives", ctx, collectFiles(ctx) \cap TreeFiles)

\* resultMonadPlugin.run(ctx): skipped when nothing is collected, else every
\* source file of the project under src/modules/ is examined
resultMonadScan(ctx) ==
  Scan("Result Monad", ctx,
       IF collectModuleFiles(ctx) = {} THEN {}
       ELSE {f \in ProjectSourceFiles : IsModuleSource(f)})

\* entityPatternsPlugin.run(ctx): skipped unless the scope is full or a
\* baseline file is a domain file, else every domain file of the project
entityPatternsScan(ctx) ==
  LET baseline == IF ctx.targetFiles # NoTargets THEN ctx.targetFiles
                  ELSE IF ctx.scope = "staged" THEN ctx.stagedFiles
                  ELSE ctx.changedFiles
      changedDomainFiles ==
        ctx.scope = "full" \/ \E f \in SeqToSet(baseline) : IsDomainFile(f)
  IN Scan("Entity Patterns (DDD)", ctx,
          IF changedDomainFiles
          THEN {f \in ProjectSourceFiles : IsDomainFile(f)} ELSE {})

ScanCtx(scope, targetFiles) ==
  BiomeCtx(scope, FALSE, targetFiles, << DomainMoney >>,
           << DomainMoney, ServerActions >>)

\* the user's explicit paths: none, a domain file, a server file, a file
\* no rule applies to, two files
TargetChoices ==
  {NoTargets, << "./" \o DomainInvoice >>, << ServerActions >>,
   << "README.md" >>, << DomainMoney, ServerActions >>}

ScanContexts ==
  {ScanCtx(scope, t) : scope \in {"staged", "changed", "full"}, t \in TargetChoices}

InitScan ==
  /\ NoRun
  /\ cpus = CHOOSE n \in CpuChoices : \A m \in CpuChoices : n <= m
  /\ NoDriver
  /\ NoProber
  /\ NoBiome
  /\ faultyFiles \in SUBSET ProjectSourceFiles
  /\ lastScan = NoScanRun
  /\ NoDisk
  /\ NoRetry

ServerDirectivesRun(ctx) ==
  /\ lastScan' = serverDirectivesScan(ctx)
  /\ UNCHANGED << faultyFiles, schedVars, cliVars, toolVars, biomeVars, diskVars, retryVars >>

ResultMonadRun(ctx) ==
  /\ lastScan' = resultMonadScan(ctx)
  /\ UNCHANGED << faultyFiles, schedVars, cliVars, toolVars, biomeVars, diskVars, retryVars >>

EntityPatternsRun(ctx) ==
  /\ lastScan' = entityPatternsScan(ctx)
  /\ UNCHANGED << faultyFiles, schedVars, cliVars, toolVars, biomeVars, diskVars, retryVars >>

NextScan ==
  \/ \E ctx \in ScanContexts : ServerDirectivesRun(ctx)
  \/ \E ctx \in ScanContexts : ResultMonadRun(ctx)
  \/ \E ctx \in ScanContexts : EntityPatternsRun(ctx)

SpecScan == InitScan /\ [][NextScan]_vars

\* --------------------------------------------------- the file hash cache
LoadWarning == "[validator-cache] Warning: failed to read cache; continuing with empty cache."
SaveWarning == "[validator-cache] Warning: failed to write cache; results will not be cached."

HashChoices == {"sha1 of the edit"}
\* the hashes a check computed for its candidates
Hashes(c) == "src/app/page.tsx" :> c

\* variant: a failed read gives the empty cache without a warning
loadCacheSilently(content) ==
  IF content.kind = "json" THEN [cache |-> content.plugins, stderr |-> << >>]
  ELSE [cache |-> << >>, stderr |-> << >>]

\* loadCache(): the parsed document, or { plugins: {} } and one warning when
\* readFileSync or JSON.parse throws
loadCache(content) ==
  IF content.kind = "json" THEN [cache |-> content.plugins, stderr |-> << >>]
  ELSE [cache |-> << >>, stderr |-> << LoadWarning >>]

\* cache.plugins[key] = cache.plugins[key] || {}; cache.plugins[key][f] = h
withPartition(cache, key, hashes) ==
  LET old == IF key \in DOMAIN cache THEN cache[key] ELSE << >>
  IN (key :> (hashes @@ old)) @@ cache

\* variant: the update starts from the cache the check loaded when it began
cacheFromStartOfRun(memo, content) == [cache |-> memo, stderr |-> << >>]

\* const cache = loadCache() of the update, after the check command returned
cacheForUpdate(memo, content) == loadCache(content)

InitialDisks ==
  {[dir |-> FALSE, file |-> Missing, tmp |-> Missing]}
  \cup {[dir |-> TRUE, file |-> f, tmp |-> Missing] :
          f \in {Missing, Truncated, Json("user" :> Hashes("sha1 of the draft")),
                 Json(("biome" :> Hashes("sha1 of the draft"))
                      @@ ("user" :> Hashes("sha1 of the edit")))}}

InitDisk ==
  /\ NoRun
  /\ cpus = CHOOSE n \in CpuChoices : \A m \in CpuChoices : n <= m
  /\ NoDriver
  /\ NoProber
  /\ NoBiome
  /\ NoScan
  /\ NoRetry
  /\ disk \in InitialDisks
  /\ checks = [c \in CacheChecks |-> IdleCheck]
  /\ save = NoSave
  /\ lastLoad = NoLoad
  /\ lastSave = NoSaved
  /\ crashed = FALSE

notDisk == << schedVars, cliVars, toolVars, biomeVars, scanVars, retryVars >>

Loaded(content, l) ==
  [called |-> TRUE, content |-> content, cache |-> l.cache, stderr |-> l.stderr]

\* a check starts: it loads the cache for its lookup and awaits its command
CheckBegins(c) ==
  /\ ~crashed /\ save.pc = "none"
  /\ checks[c].pc = "idle"
  /\ LET l == loadCache(disk.file)
     IN /\ checks' = [checks EXCEPT ![c] = [pc |-> "running", memo |-> l.cache]]
        /\ lastLoad' = Loaded(disk.file, l)
  /\ UNCHANGED << disk, save, lastSave, crashed, notDisk >>

\* the command of check c has returned: the check loads the cache again, puts
\* the hashes h in its partition and calls saveCache, which tests the directory
CheckUpdates(c, h) ==
  /\ ~crashed /\ save.pc = "none"
  /\ checks[c].pc = "running"
  /\ LET l == cacheForUpdate(checks[c].memo, disk.file)
     IN /\ save' = [pc |-> IF disk.dir THEN "write" ELSE "mkdir", by |-> c,
                    payload |-> Json(withPartition(l.cache, c, Hashes(h))),
                    before |-> disk.file]
        /\ lastLoad' = Loaded(disk.file, l)
  /\ checks' = [checks EXCEPT ![c].pc = "done"]
  /\ UNCHANGED << disk, lastSave, crashed, notDisk >>

\* saveCache returns: written tells whether hex-validator.json holds the payload
FinishSave(written, lines) ==
  /\ lastSave' = [returned |-> TRUE, by |-> save.by, before |-> save.before,
                  payload |-> save.payload, written |-> written, stderr |-> lines]
  /\ save' = NoSave

\* fs.mkdirSync(CACHE_DIR, { recursive: true }); a throw reaches the outer catch
SaveMkdir(succeeds) ==
  /\ ~crashed /\ save.pc = "mkdir"
  /\ IF succeeds
       THEN /\ disk' = [disk EXCEPT !.dir = TRUE]
            /\ save' = [save EXCEPT !.pc = "write"]
            /\ UNCHANGED lastSave
       ELSE /\ FinishSave(FALSE, << SaveWarning >>)
            /\ UNCHANGED disk
  /\ UNCHANGED << checks, lastLoad, crashed, notDisk >>

\* variant: the payload is written to hex-validator.json itself
SaveWriteInPlace(succeeds, left) ==
  /\ ~crashed /\ save.pc = "write"
  /\ IF succeeds
       THEN /\ disk' = [disk EXCEPT !.file = save.payload]
            /\ FinishSave(TRUE, << >>)
       ELSE /\ disk' = [disk EXCEPT !.file = left]
            /\ FinishSave(FALSE, << SaveWarning >>)
  /\ UNCHANGED << checks, lastLoad, crashed, notDisk >>

\* fs.writeFileSync(tmp, payload); a throw (left: what the tmp file holds
\* then) reaches the outer catch
SaveWriteTmp(succeeds, left) ==
  /\ ~crashed /\ save.pc = "write"
  /\ IF succeeds
       THEN /\ disk' = [disk EXCEPT !.tmp = save.payload]
            /\ save' = [save EXCEPT !.pc = "rename"]
            /\ UNCHANGED lastSave
       ELSE /\ disk' = [disk EXCEPT !.tmp = left]
            /\ FinishSave(FALSE, << SaveWarning >>)
  /\ UNCHANGED << checks, lastLoad, crashed, notDisk >>

\* fs.renameSync(tmp, CACHE_FILE); a throw enters the fallback
SaveRename(succeeds) ==
  /\ ~crashed /\ save.pc = "rename"
  /\ IF succeeds
       THEN /\ disk' = [disk EXCEPT !.file = disk.tmp, !.tmp = Missing]
            /\ FinishSave(TRUE, << >>)
       ELSE /\ save' = [save EXCEPT !.pc = "copy"]
            /\ UNCHANGED << disk, lastSave >>
  /\ UNCHANGED << checks, lastLoad, crashed, notDisk >>

\* fs.copyFileSync(tmp, CACHE_FILE); a throw (left: what hex-validator.json
\* holds then) is swallowed by the inner catch
SaveCopy(succeeds, left) ==
  /\ ~crashed /\ save.pc = "copy"
  /\ IF succeeds
       THEN /\ disk' = [disk EXCEPT !.file = disk.tmp]
            /\ save' = [save EXCEPT !.pc = "unlink"]
            /\ UNCHANGED lastSave
       ELSE /\ disk' = [disk EXCEPT !.file = left]
            /\ FinishSave(FALSE, << >>)
  /\ UNCHANGED << checks, lastLoad, crashed, notDisk >>

\* fs.unlinkSync(tmp); a throw is swallowed by the inner catch
SaveUnlink(succeeds) ==
  /\ ~crashed /\ save.pc = "unlink"
  /\ disk' = IF succeeds THEN [disk EXCEPT !.tmp = Missing] ELSE disk
  /\ FinishSave(TRUE, << >>)
  /\ UNCHANGED << checks, lastLoad, crashed, notDisk >>

\* the process dies inside saveCache: a write in progress leaves the file it
\* was writing whole, truncated or untouched; a rename happened or did not
Crash ==
  /\ ~crashed /\ save.pc # "none"
  /\ crashed' = TRUE
  /\ \/ UNCHANGED disk
     \/ save.pc = "write" /\ disk' = [disk EXCEPT !.tmp = Truncated]
     \/ save.pc = "copy" /\ disk' = [disk EXCEPT !.file = Truncated]
  /\ UNCHANGED << checks, save, lastLoad, lastSave, notDisk >>

\* the next run of the validator, in a new process
NewRun ==
  /\ crashed \/ (save.pc = "none" /\ \A c \in CacheChecks : checks[c].pc = "done")
  /\ crashed' = FALSE
  /\ checks' = [c \in CacheChecks |-> IdleCheck]
  /\ save' = NoSave
  /\ UNCHANGED << disk, lastLoad, lastSave, notDisk >>

NextDisk ==
  \/ \E c \in CacheChecks : CheckBegins(c)
  \/ \E c \in CacheChecks, h \in HashChoices : CheckUpdates(c, h)
  \/ \E succeeds \in BOOLEAN : SaveMkdir(succeeds)
  \/ \E succeeds \in BOOLEAN, left \in {Missing, Truncated} : SaveWriteTmp(succeeds, left)
  \/ \E succeeds \in BOOLEAN : SaveRename(succeeds)
  \/ \E succeeds \in BOOLEAN, left \in {disk.file, Truncated} : SaveCopy(succeeds, left)
  \/ \E succeeds \in BOOLEAN : SaveUnlink(succeeds)
  \/ Crash
  \/ NewRun

SpecDisk == InitDisk /\ [][NextDisk]_vars

\* ------------------------------------------------- checks that retry
\* the texts VALIDATOR_RETRIES is set to (None: unset)
RetryEnvs == {None, "", "0", "1", "2", "abc", "-1", "1.5"}

\* Number(text) is NaN
IsNaN(text) == text = "abc"

\* 2 * Number(text), so that 1.5 is a whole number
TwiceNumber(text) ==
  CASE text = "1" -> 2
    [] text = "2" -> 4
    [] text = "-1" -> -2
    [] text = "1.5" -> 3
    [] OTHER -> 0

\* twice: const retries = Number(process.env.VALIDATOR_RETRIES ?? 0) || 0
twiceRetries(env) ==
  IF env = None THEN 0 ELSE IF IsNaN(env) THEN 0 ELSE TwiceNumber(env)

\* run(): resolve({ code: code ?? 1, ... })
runCode(end) == IF end.kind = "exit" THEN end.code ELSE 1

\* how the test command ends: exit 0, exit 1, killed by a signal
AttemptEnds == {Exited(0, << >>), Exited(1, << >>), Killed(<< >>)}

RetryChecks == {"Unit (vitest)", PLAYWRIGHT}

InitRetry ==
  /\ NoRun
  /\ cpus = CHOOSE n \in CpuChoices : \A m \in CpuChoices : n <= m
  /\ NoDriver
  /\ NoProber
  /\ NoBiome
  /\ NoScan
  /\ NoDisk
  /\ retryEnv \in RetryEnvs
  /\ retryCheck = None
  /\ attemptLog = << >>
  /\ retryResult = None

notRetry == << schedVars, cliVars, toolVars, biomeVars, scanVars, diskVars >>

\* the check has found its tool: let res = await run('pnpm', args, ctx.cwd)
\* is launched
RetryCheckRuns(p) ==
  /\ retryCheck = None
  /\ retryCheck' = p
  /\ UNCHANGED << retryEnv, attemptLog, retryResult, notRetry >>

\* variant: the loop does not look at the exit code
AttemptReturnsRetryAlways(end) ==
  /\ retryCheck # None /\ retryResult = None
  /\ attemptLog' = Append(attemptLog, end)
  /\ retryResult' = IF 2 * Len(attemptLog) < twiceRetries(retryEnv)
                      THEN None
                    ELSE IF runCode(end) = 0 THEN "pass" ELSE "fail"
  /\ UNCHANGED << retryEnv, retryCheck, notRetry >>

\* the launched command ends: while (res.code !== 0 && attempt < retries)
\* launches it again, else the check returns pass or fail
AttemptReturns(end) ==
  /\ retryCheck # None /\ retryResult = None
  /\ attemptLog' = Append(attemptLog, end)
  /\ retryResult' = IF runCode(end) # 0 /\ 2 * Len(attemptLog) < twiceRetries(retryEnv)
                      THEN None
                    ELSE IF runCode(end) = 0 THEN "pass" ELSE "fail"
  /\ UNCHANGED << retryEnv, retryCheck, notRetry >>

NextRetry ==
  \/ \E p \in RetryChecks : RetryCheckRuns(p)
  \/ \E end \in AttemptEnds : AttemptReturns(end)

SpecRetry == InitRetry /\ [][NextRetry]_vars

\* ------------------------------------------------------------ properties
Stages(r) == config[r].stages
StageIds(r) == 1..Len(Stages(r))

\* the entries of the returned list that carry the name of stage s
StageResults(r, s) ==
  SelectSeq(results[r], LAMBDA x : x.stage = Stages(r)[s].name)

\* stage s has completed and its policy has been applied
StageClosed(r, s) == stageIdx[r] > s \/ (stageIdx[r] = s /\ pc[r] = "done")

\* stage s produced a fail, or a warn under failOnWarn
PolicyFails(r, s) ==
  \E i \in 1..Len(StageResults(r, s)) :
    \/ StageResults(r, s)[i].status = "fail"
    \/ Stages(r)[s].failOnWarn /\ StageResults(r, s)[i].status = "warn"

RECURSIVE TasksThrough(_, _)
TasksThrough(r, s) ==
  IF s = 0 THEN 0 ELSE TasksThrough(r, s - 1) + Len(Stages(r)[s].tasks)

RECURSIVE StageColumn(_, _)
StageColumn(r, s) ==
  IF s = 0 THEN << >>
  ELSE StageColumn(r, s - 1)
       \o [i \in 1..Len(Stages(r)[s].tasks) |-> Stages(r)[s].name]

\* the first stage whose policy failed, the last stage when none did
LastStageRun(r) ==
  IF \E s \in StageIds(r) : PolicyFails(r, s)
    THEN CHOOSE s \in StageIds(r) :
           PolicyFails(r, s) /\ \A t \in 1..(s - 1) : ~PolicyFails(r, t)
    ELSE Len(Stages(r))

\* C1: once a stage has finished with a fail result, or with a warn result
\* under failOnWarn, the run has returned, no check of a later stage was ever
\* started, and the returned list ends with that stage's complete results.
C1_AbortStopsPipeline ==
  \A r \in Runs : \A s \in StageIds(r) :
    (StageClosed(r, s) /\ PolicyFails(r, s)) =>
      /\ pc[r] = "done"
      /\ \A i \in 1..Len(started[r]) : started[r][i][1] <= s
      /\ Len(StageResults(r, s)) = Len(Stages(r)[s].tasks)
      /\ Len(results[r]) = TasksThrough(r, s)

\* a failOnWarn stage closed on a warn alone while a later stage had checks
C1_Witness ==
  \E r \in Runs : \E s \in StageIds(r) :
    /\ StageClosed(r, s) /\ PolicyFails(r, s)
    /\ \A i \in 1..Len(StageResults(r, s)) : StageResults(r, s)[i].status # "fail"
    /\ s < Len(Stages(r)) /\ Len(Stages(r)[s + 1].tasks) > 0

\* C2: the returned list has one entry per check of every stage up to and
\* including the first aborted stage (all stages when none aborts), grouped
\* by stage in configuration order, each entry carrying its stage's name.
C2_ResultListShape ==
  \A r \in Runs :
    pc[r] = "done" =>
      /\ Len(results[r]) = TasksThrough(r, LastStageRun(r))
      /\ [i \in 1..Len(results[r]) |-> results[r][i].stage]
           = StageColumn(r, LastStageRun(r))

\* a run that aborted in its first stage with more than one check reported,
\* and a later stage left out
C2_Witness ==
  \E r \in Runs :
    /\ pc[r] = "done" /\ LastStageRun(r) = 1 /\ Len(Stages(r)) > 1
    /\ Len(results[r]) > 1 /\ PolicyFails(r, 1)

\* every check of stage s is reported and the stage passed its policy
StagePassed(r, s) ==
  /\ Len(StageResults(r, s)) = Len(Stages(r)[s].tasks)
  /\ ~PolicyFails(r, s)

\* C3: runValidation returns ok = true exactly when every stage of the
\* configuration ran and passed its policy, and ok = false otherwise.
C3_OkIffEveryStagePassed ==
  \A r \in Runs :
    pc[r] = "done" => (ok[r] <=> \A s \in StageIds(r) : StagePassed(r, s))

\* a run returned ok = true although a stage without failOnWarn holds a warn
C3_Witness ==
  \E r \in Runs :
    /\ pc[r] = "done" /\ ok[r]
    /\ \E i \in 1..Len(results[r]) : results[r][i].status = "warn"

\* the result the scheduler reports for the check at position j of stage s
ExpectedResult(r, s, j) ==
  LET task == Stages(r)[s].tasks[j]
  IN stampStage(runTask(task.plugin, returned[r][<< s, task.id >>]), Stages(r)[s])

\* C4: the results of a completed parallel stage are, in the returned list,
\* in the declared order of the stage's checks, whatever each check returned.
C4_ParallelDeclaredOrder ==
  \A r \in Runs : \A s \in StageIds(r) :
    (StageClosed(r, s) /\ Stages(r)[s].parallel) =>
      StageResults(r, s)
        = [j \in 1..Len(Stages(r)[s].tasks) |-> ExpectedResult(r, s, j)]

\* position in run r's stage s of the task with identity id
PosOf(r, s, id) ==
  CHOOSE j \in 1..Len(Stages(r)[s].tasks) : Stages(r)[s].tasks[j].id = id

\* C5: two runs of the same checks with the same fixed results, the second
\* with the checks of a parallel stage permuted in the configuration, return
\* result lists that differ by exactly that permutation, whatever the
\* completion orders were.
C5_ConfigOrderDeterminesOutput ==
  (Runs = {1, 2} /\ pc[1] = "done" /\ pc[2] = "done") =>
    \A s \in StageIds(1) :
      /\ Len(StageResults(2, s)) = Len(StageResults(1, s))
      /\ \A j \in 1..Len(StageResults(2, s)) :
           StageResults(2, s)[j]
             = StageResults(1, s)[PosOf(1, s, Stages(2)[s].tasks[j].id)]

\* C6: with options.maxWorkers an integer >= 1, the number of checks of a
\* parallel stage that were started and have not returned never exceeds
\* max(1, min(maxWorkers, 8)), hence never 8.
C6_BoundedInflight ==
  \A r \in Runs :
    (options.maxWorkers >= 1 /\ stageIdx[r] <= Len(Stages(r)) /\ CurStage(r).parallel) =>
      /\ Cardinality(inflight[r]) <= Max(1, Min(options.maxWorkers, 8))
      /\ Cardinality(inflight[r]) <= 8

\* eight checks in flight, more queued, and a requested pool above eight
C6_Witness ==
  \E r \in Runs :
    /\ options.maxWorkers > 8 /\ CurStage(r).parallel
    /\ Cardinality(inflight[r]) = 8 /\ queue[r] # << >>

\* the results reported so far for stage s: out while the stage is open
Reported(r, s) ==
  IF s = stageIdx[r] /\ pc[r] \notin {"loop", "done"} THEN out[r]
  ELSE StageResults(r, s)

ErrorFindings(res) == {i \in 1..Len(res.messages) : res.messages[i].level = "error"}

\* the check <<s, id>> threw and is reported as one fail result named after
\* it, with exactly one error-level finding, whose message is text
CrashReported(r, s, id, text) ==
  LET plugin == Stages(r)[s].tasks[PosOf(r, s, id)].plugin
      named == {i \in 1..Len(Reported(r, s)) : Reported(r, s)[i].name = plugin}
  IN /\ Cardinality(named) = 1
     /\ \A i \in named :
          /\ Reported(r, s)[i].status = "fail"
          /\ Cardinality(ErrorFindings(Reported(r, s)[i])) = 1
          /\ \A m \in ErrorFindings(Reported(r, s)[i]) :
               Reported(r, s)[i].messages[m].message = text

Thrown(r) == {k \in DOMAIN returned[r] : returned[r][k].kind = "throw"}

\* every check of a closed stage was started and is reported
StageFullyReported(r, s) ==
  /\ Len(StageResults(r, s)) = Len(Stages(r)[s].tasks)
  /\ \A j \in 1..Len(Stages(r)[s].tasks) :
       \E i \in 1..Len(started[r]) : started[r][i] = << s, Stages(r)[s].tasks[j].id >>

\* C7 as stated: a check that throws any value is reported as a fail result
\* named after the check whose single error-level finding carries the text
\* of the thrown value, and the other checks of the stage still run.
C7_CrashCarriesErrorText ==
  \A r \in Runs : \A k \in Thrown(r) :
    /\ CrashReported(r, k[1], k[2], returned[r][k].err.text)
    /\ StageClosed(r, k[1]) => StageFullyReported(r, k[1])

\* the text runTask reports: the message of an Error, a fixed text otherwise
CrashText(err) == IF err.isError THEN err.message ELSE "Plugin crashed"

\* C7 amended: a check that throws is reported as a fail result named after
\* the check with exactly one error-level finding; the finding carries the
\* message of a thrown Error and the fixed text "Plugin crashed" for any
\* other thrown value; the other checks of the stage still run.
C7_CrashConverted ==
  \A r \in Runs : \A k \in Thrown(r) :
    /\ CrashReported(r, k[1], k[2], CrashText(returned[r][k].err))
    /\ StageClosed(r, k[1]) => StageFullyReported(r, k[1])

\* an Error with a stack was thrown by the first check of a closed stage of
\* several checks
C7_Witness ==
  \E r \in Runs : \E k \in Thrown(r) :
    /\ returned[r][k].err.isError /\ returned[r][k].err.stack # None
    /\ StageClosed(r, k[1]) /\ Len(Stages(r)[k[1]].tasks) > 1
    /\ Stages(r)[k[1]].tasks[1].id = k[2]

\* the ids of stage s in start order
StartedIn(r, s) ==
  LET evs == SelectSeq(started[r], LAMBDA e : e[1] = s)
  IN [i \in 1..Len(evs) |-> evs[i][2]]

\* C8: in a sequential stage the checks are started in declaration order,
\* each only after its predecessor returned, so at most one is in flight
\* and the results are in declaration order.
C8_SequentialOrder ==
  \A r \in Runs : \A s \in StageIds(r) :
    (~Stages(r)[s].parallel /\ s <= stageIdx[r]) =>
      LET ids == StartedIn(r, s)
          tasks == Stages(r)[s].tasks
          rep == Reported(r, s)
      IN /\ Len(ids) <= Len(tasks)
         /\ \A i \in 1..Len(ids) : ids[i] = tasks[i].id
         /\ \A i \in 1..(Len(ids) - 1) : << s, ids[i] >> \in DOMAIN returned[r]
         /\ s = stageIdx[r] => Cardinality(inflight[r]) <= 1
         /\ Len(rep) <= Len(ids)
         /\ \A i \in 1..Len(rep) :
              [rep[i] EXCEPT !.stage = None]
                = runTask(tasks[i].plugin, returned[r][<< s, tasks[i].id >>])

\* the second check of a sequential stage is in flight after the first returned
C8_Witness ==
  \E r \in Runs :
    /\ stageIdx[r] <= Len(Stages(r)) /\ ~CurStage(r).parallel
    /\ Len(CurStage(r).tasks) > 1
    /\ inflight[r] = {CurStage(r).tasks[2].id}
    /\ Len(out[r]) = 1

HasLevel(res, level) == \E i \in 1..Len(res.messages) : res.messages[i].level = level

\* C9: every result of the returned list has status fail iff one of its
\* findings is an error; otherwise status warn iff one of its findings is a
\* warn; otherwise status pass or skipped.
C9_StatusFollowsFindings ==
  \A r \in Runs : \A i \in 1..Len(results[r]) :
    LET res == results[r][i]
    IN /\ res.status = "fail" <=> HasLevel(res, "error")
       /\ ~HasLevel(res, "error") => (res.status = "warn" <=> HasLevel(res, "warn"))
       /\ (~HasLevel(res, "error") /\ ~HasLevel(res, "warn"))
            => res.status \in {"pass", "skipped"}

\* the checks that consulted the tool prober and were told available = false
ToolMissing(r) ==
  {k \in DOMAIN observed[r] :
     /\ ProbesTool(Stages(r)[k[1]].tasks[PosOf(r, k[1], k[2])].plugin,
                   [PluginContext(r) EXCEPT !.config = config[r]])
     /\ ~observed[r][k].tool}

\* C10: a check whose required tool is reported unavailable returns status
\* skipped with the installation hint in stdout, never fail; if every other
\* check passes, the finished run returns ok = true.
C10_MissingToolSkips ==
  \A r \in Runs :
    /\ \A k \in ToolMissing(r) :
         /\ returned[r][k].kind = "return"
         /\ returned[r][k].res.status = "skipped"
         /\ returned[r][k].res.stdout = InstallHint
    /\ (/\ pc[r] = "done"
        /\ \A k \in DOMAIN returned[r] \ ToolMissing(r) :
             returned[r][k].kind = "return" /\ returned[r][k].res.status = "pass")
       => ok[r]

\* a finished run, ok, in which a check found its tool missing and another passed
C10_Witness ==
  \E r \in Runs :
    /\ pc[r] = "done" /\ ok[r] /\ ToolMissing(r) # {}
    /\ \E k \in DOMAIN returned[r] \ ToolMissing(r) : returned[r][k].res.status = "pass"

\* the command line asks for a validation run (not --help, --version or init)
ValidationCommand == ~argv.help /\ ~argv.version /\ argv.cmd # "init"

\* runValidation returned { ok, results } to main()
SchedulerReturned(r) == pc[r] = "done"

C12_MemoIsPermanent ==
  [][/\ \A c \in Callers :
          (toolCalls'[c] # toolCalls[c] /\ toolCalls'[c].pc = "probing")
            => << toolCalls'[c].command, toolCalls'[c].cwd >> \notin completedCalls
     /\ \A k \in DOMAIN toolCache :
          k \in DOMAIN toolCache' /\ toolCache'[k] = toolCache[k]]_vars

\* C20: every probe that ended resolved to a ToolInfo, with available = true
\* exactly when the process closed with exit code 0, and available = false
\* for a non-zero code, for a close without a code and for a spawn error
C20_ProbeResolves ==
  \A i \in 1..Len(probeLog) :
    LET p == probeLog[i]
    IN /\ p.info.available \in BOOLEAN
       /\ p.info.available <=> (p.end.kind = "exit" /\ p.end.code = 0)
       /\ (p.end.kind \in {"killed", "error"} \/ p.end.code # 0) => ~p.info.available

\* a probe was killed without a code, one exited with a non-zero code and one
\* could not be spawned; every caller got its result
C20_Witness ==
  /\ \E i \in 1..Len(probeLog) : probeLog[i].end.kind = "killed"
  /\ \E i \in 1..Len(probeLog) : probeLog[i].end.kind = "error"
  /\ \E i \in 1..Len(probeLog) :
       probeLog[i].end.kind = "exit" /\ probeLog[i].end.code # 0
  /\ \A i \in 1..Len(probeLog) : ~probeLog[i].info.available
  /\ \A c \in Callers : toolCalls[c].pc = "returned"

\* the last run of the Biome check spawned the command
Spawned(command) == \E i \in 1..Len(lastRun.spawned) : lastRun.spawned[i] = command

\* C13: a run of the cache-using check in which every candidate file has the
\* hash the cache partition stores for it returns skipped (or pass) and spawns
\* no subprocess at all; a run in which the hash of a candidate differs from
\* the stored one runs the check command (the tool being installed)
C13_UnchangedFileSkips ==
  (lastRun.ran /\ lastRun.usesCache) =>
    /\ lastRun.changed = << >> =>
         (lastRun.status \in {"skipped", "pass"} /\ lastRun.spawned = << >>)
    /\ (lastRun.changed # << >> /\ lastRun.available) => Spawned("biome check")

\* C14: a run in which the check command failed or reported errors leaves the
\* hashes stored in the cache partition as they were
C14_FailedRunKeepsHashes ==
  (lastRun.ran /\ lastRun.toolFailed) => lastRun.storedAfter = lastRun.stored

\* C15: the repository-writing command (biome check --write) is launched only
\* when scope is staged, ci is false and the cache lookup found a changed
\* candidate
C15_AutofixOnlyStagedNotCi ==
  Spawned("biome check --write") =>
    (lastRun.scope = "staged" /\ ~lastRun.ci /\ lastRun.changed # << >>)

\* C16: when the context carries target files, every file a rule check
\* examines, and the file of every finding it emits, is one of the target
\* files, whatever the scope is
C16_TargetFilesRestrictChecks ==
  (lastScan.ran /\ lastScan.targets # NoTargets) =>
    /\ lastScan.examined \subseteq SeqToSet(lastScan.targets)
    /\ lastScan.findings \subseteq SeqToSet(lastScan.targets)

\* the configuration file has the wrong shape, or --report names no reporter
InvalidConfigShape == configFile.ext # None /\ configFile.imports /\ ~configFile.valid
UnknownReporter == argv.report \notin {None, "summary", "json", "junit"}

\* C17: an invalid configuration shape or an unknown reporter name makes the
\* driver print a message to stderr and exit with code 1, and no stage is run
C17_ConfigErrorStopsBeforeStages ==
  (ValidationCommand /\ (InvalidConfigShape \/ UnknownReporter)) =>
    /\ started[1] = << >>
    /\ stageIdx[1] <= 1
    /\ cliPc = "exited" => (exitCode = << 1 >> /\ stderrOut # << >>)

\* the results of the E2E check in run r
E2EReturned(r) ==
  {k \in DOMAIN returned[r] :
     Stages(r)[k[1]].tasks[PosOf(r, k[1], k[2])].plugin = PLAYWRIGHT}

\* C18: the e2e mode the driver selected is the mode the E2E check observes;
\* without an --e2e flag the mode is off and the E2E check returns skipped
\* without probing its tool, and an --e2e value overrides the default
C18_DriverModeIsObserved ==
  \A k \in E2EReturned(1) :
    cliPc # "main" =>
      /\ e2eMode(PluginContext(1)) = options.e2e
      /\ argv.e2e = None =>
           /\ options.e2e = "off"
           /\ returned[1][k] = Returns(Result(PLAYWRIGHT, "skipped", << >>, None, None, None))
           /\ ~ProbesTool(PLAYWRIGHT, PluginContext(1))
      /\ argv.e2e \in {"auto", "always", "off"} => options.e2e = argv.e2e

\* the git command ran and exited with a non-zero code
NonZeroExit(end) == end.kind = "exit" /\ end.code # 0
\* runValidation has gone past the construction of the context
ContextAttempted(r) == pc[r] \notin {"idle", "start"}

\* C19: a git command that exits with a non-zero code gives the empty list of
\* staged files, respectively of changed files, and does not abort the run:
\* the context is built and the stages are entered
C19_GitFailureIsEmptyList ==
  ContextAttempted(1) =>
    /\ NonZeroExit(gitRepo.staged) => options.stagedFiles = << >>
    /\ (options.scope # "staged" /\ NonZeroExit(gitRepo[gitListCommand(gitRepo)]))
         => options.upstreamFiles = << >>
    /\ (\A c \in gitCommandsRun(gitRepo, options.scope) : NonZeroExit(gitRepo[c]))
         => pc[1] # "crashed"

\* a run outside a git tree, on the changed files: every git command exited
\* with 128, both lists are empty and the run has finished
C19_Witness ==
  /\ gitRepo.staged = NotARepository
  /\ gitRepo[gitListCommand(gitRepo)] = NotARepository
  /\ options.scope # "staged"
  /\ pc[1] = "done"
  /\ options.stagedFiles = << >>
  /\ options.upstreamFiles = << >>
  /\ started[1] # << >>

\* the probes that ended for the same (command, cwd) as probe i, in the order
\* in which toolCache.set ran
SameKeyProbes(i) ==
  {j \in 1..Len(probeLog) :
     probeLog[j].command = probeLog[i].command /\ probeLog[j].cwd = probeLog[i].cwd}

\* C21: for each (command, cwd) the Map receives exactly one insert, and the
\* info stored first is not replaced by a probe that ends later, also when
\* several callers ask for the pair while nothing is stored yet
C21_FirstWriterWins ==
  \A i \in 1..Len(probeLog) :
    LET first == CHOOSE j \in SameKeyProbes(i) : \A j2 \in SameKeyProbes(i) : j <= j2
    IN /\ SameKeyProbes(i) = {i}
       /\ toolCache[cacheKey(probeLog[i].command, probeLog[i].cwd)] = probeLog[first].info

\* how many times the check id of stage s was started in run r
StartCount(r, s, id) ==
  Cardinality({i \in 1..Len(started[r]) : started[r][i] = << s, id >>})

\* the runner of stage s has returned
RunnerReturned(r, s) ==
  stageIdx[r] > s \/ (stageIdx[r] = s /\ pc[r] \in {"closing", "done"})

\* C22: no check is ever started twice, and when the runner of a stage has
\* returned every check of the stage has been started exactly once, also when
\* an earlier check of the stage failed or crashed
C22_StartedExactlyOnce ==
  \A r \in Runs : \A s \in StageIds(r) :
    \A j \in 1..Len(Stages(r)[s].tasks) :
      LET id == Stages(r)[s].tasks[j].id
      IN /\ StartCount(r, s, id) <= 1
         /\ RunnerReturned(r, s) => StartCount(r, s, id) = 1
         /\ s > stageIdx[r] => StartCount(r, s, id) = 0

\* a sequential stage whose first check crashed has returned with its second
\* check started after the crash
C22_Witness ==
  \E r \in Runs : \E s \in StageIds(r) :
    /\ ~Stages(r)[s].parallel /\ Len(Stages(r)[s].tasks) > 1
    /\ RunnerReturned(r, s)
    /\ returned[r][<< s, Stages(r)[s].tasks[1].id >>].kind = "throw"
    /\ StartCount(r, s, Stages(r)[s].tasks[2].id) = 1

\* run r is inside runParallel
InParallelRunner(r) == pc[r] \in {"pump", "pumpLoop", "wait"}

\* C23: when every started check returns, a parallel stage completes; it
\* completes only with an empty queue and nothing in flight; a stage without
\* checks completes at the first call of pump(); and while the runner waits
\* with checks still queued every worker slot is taken
C23_ParallelStageCompletes ==
  /\ InParallelRunner(1) ~> pc[1] \in {"closing", "loop", "done"}
  /\ [][\A r \in Runs :
          /\ (InParallelRunner(r) /\ pc'[r] = "closing")
               => (queue[r] = << >> /\ running[r] = 0 /\ inflight[r] = {}
                   /\ Len(out[r]) = Len(CurStage(r).tasks))
          /\ (pc[r] = "pump" /\ CurStage(r).tasks = << >> /\ pc'[r] # pc[r])
               => (pc'[r] = "closing" /\ started'[r] = started[r])
          /\ (pc'[r] = "wait" /\ queue'[r] # << >>)
               => running'[r] = maxWorkers(options.maxWorkers, cpus)]_vars

\* a parallel stage of more checks than worker slots has completed: a slot
\* freed by a finished check was taken by a queued one
C23_Witness ==
  \E r \in Runs :
    /\ pc[r] = "closing" /\ CurStage(r).parallel
    /\ Len(CurStage(r).tasks) > maxWorkers(options.maxWorkers, cpus)
    /\ Len(out[r]) = Len(CurStage(r).tasks)

\* the partitions of a document other than the one of check c
OtherPartitions(content, c) == DOMAIN content.plugins \ {c}

C25_RenameIsAtomic ==
  [][save.pc # "copy"
       => \/ disk'.file = disk.file
          \/ disk'.file = save.payload /\ save.payload.kind = "json"]_vars

\* the process died while the tmp file was being written: the tmp file is
\* truncated, the cache file still holds the complete previous document
C25_Witness ==
  /\ crashed /\ save.pc = "write"
  /\ disk.tmp = Truncated
  /\ disk.file.kind = "json" /\ disk.file = save.before
  /\ save.payload # disk.file

\* C26: every call of saveCache returns, and a call that did not write the
\* cache file has written one warning line to standard error
C26_WriteFailureWarns ==
  lastSave.returned =>
    /\ Len(lastSave.stderr) <= 1
    /\ ~lastSave.written => lastSave.stderr = << SaveWarning >>

\* C27: every call of loadCache returns; on a missing or truncated file it
\* returns the cache without partitions and writes exactly one warning line
\* to standard error
C27_LoadDegradesToEmpty ==
  lastLoad.called =>
    /\ lastLoad.content.kind \in {"missing", "truncated"}
         => (lastLoad.cache = << >> /\ lastLoad.stderr = << LoadWarning >>)
    /\ lastLoad.content.kind = "json"
         => (lastLoad.cache = lastLoad.content.plugins /\ lastLoad.stderr = << >>)

\* after a call of saveCache that did not write the file, a check loaded a
\* truncated cache file
C27_Witness ==
  /\ lastLoad.called /\ lastLoad.content = Truncated
  /\ lastLoad.cache = << >> /\ Len(lastLoad.stderr) = 1
  /\ \E c \in CacheChecks : checks[c].pc = "running" /\ checks[c].memo = << >>
  /\ lastSave.returned /\ ~lastSave.written

\* what a check returned without the two fields the scheduler sets
OwnFields(res) == [res EXCEPT !.stage = None, !.durationMs = None]

\* the checks of closed stages that returned normally
ReturnedNormally(r) ==
  {k \in DOMAIN returned[r] : returned[r][k].kind = "return" /\ StageClosed(r, k[1])}

\* C28: the result of a check that returned normally is in the result list
\* with its name, status, findings, stdout, stderr and artifacts as the check
\* returned them; the scheduler sets the stage (the name of the check's
\* stage) and the duration, and adds no result of its own to the stage
C28_ResultPassedThrough ==
  \A r \in Runs :
    /\ \A k \in ReturnedNormally(r) :
         \E i \in 1..Len(results[r]) :
           /\ OwnFields(results[r][i]) = OwnFields(returned[r][k].res)
           /\ results[r][i].stage = Stages(r)[k[1]].name
           /\ results[r][i].durationMs = "measured"
    /\ \A s \in StageIds(r) :
         StageClosed(r, s) => Len(StageResults(r, s)) = Len(Stages(r)[s].tasks)

\* a check that returned findings, stdout, artifacts and its own duration is
\* in the result list of a closed stage
C28_Witness ==
  \E r \in Runs : \E k \in ReturnedNormally(r) :
    LET res == returned[r][k].res
    IN /\ res.artifacts # None /\ res.stdout # None /\ res.messages # << >>
       /\ res.durationMs = PluginClock
       /\ \E i \in 1..Len(results[r]) :
            results[r][i].artifacts = res.artifacts /\ results[r][i].stage # None

\* how many times the check has launched its test command
Launches ==
  Len(attemptLog) + (IF retryCheck # None /\ retryResult = None THEN 1 ELSE 0)

ExitedZero(end) == end.kind = "exit" /\ end.code = 0

\* no launch follows an attempt that exited with code 0, and the check
\* reports pass exactly when its last attempt exited with code 0
StopsAtSuccess ==
  /\ \A i \in 1..Len(attemptLog) :
       ExitedZero(attemptLog[i]) => (i = Len(attemptLog) /\ retryResult # None)
  /\ retryResult # None =>
       /\ attemptLog # << >>
       /\ retryResult = "pass" <=> ExitedZero(attemptLog[Len(attemptLog)])

\* C29 as stated: at most 1 + VALIDATOR_RETRIES launches, none after an
\* attempt that exited with code 0, pass iff the last attempt exited with
\* code 0, and exactly one attempt when the variable is unset, zero or not a
\* number
C29_AtMostOnePlusRetries ==
  /\ (retryEnv # None /\ ~IsNaN(retryEnv)) => 2 * Launches <= 2 + TwiceNumber(retryEnv)
  /\ StopsAtSuccess
  /\ (retryEnv = None \/ IsNaN(retryEnv) \/ TwiceNumber(retryEnv) = 0)
       => (Launches <= 1 /\ (retryResult # None => Len(attemptLog) = 1))

\* VALIDATOR_RETRIES rounded up to a whole number; 0 when it is unset, not a
\* number, zero or negative
RoundedRetries ==
  IF twiceRetries(retryEnv) <= 0 THEN 0 ELSE (twiceRetries(retryEnv) + 1) \div 2

\* C29, amended: at most 1 + R launches, with R the value of VALIDATOR_RETRIES
\* rounded up to a whole number and 0 when it is unset, not a number, zero or
\* negative; none after an attempt that exited with code 0; pass iff the last
\* attempt exited with code 0; exactly one attempt when R is 0
C29_AtMostOnePlusRoundedRetries ==
  /\ Launches <= 1 + RoundedRetries
  /\ StopsAtSuccess
  /\ RoundedRetries = 0 => (Launches <= 1 /\ (retryResult # None => Len(attemptLog) = 1))

\* with VALIDATOR_RETRIES=1.5 the check passed at its third attempt
C29_Witness ==
  /\ retryEnv = "1.5"
  /\ Len(attemptLog) = 3
  /\ retryResult = "pass"

\* the probes that ended for exactly this command and this cwd
ProbesOf(command, cwd) ==
  {i \in 1..Len(probeLog) : probeLog[i].command = command /\ probeLog[i].cwd = cwd}

\* C30: calls whose command or cwd differ never share an entry of the Map:
\* different pairs have different keys, a call is answered from the Map only
\* after a probe of exactly its command and cwd has ended, and what a call
\* returns is the info of a probe of exactly its command and cwd
C30_PairsDoNotShareEntries ==
  /\ \A c1, c2 \in ToolCommands : \A d1, d2 \in ToolCwds :
       << c1, d1 >> # << c2, d2 >> => cacheKey(c1, d1) # cacheKey(c2, d2)
  /\ \A i \in 1..Len(callLog) :
       ~callLog[i].spawned => ProbesOf(callLog[i].command, callLog[i].cwd) # {}
  /\ \A c \in Callers :
       toolCalls[c].pc = "returned"
         => \E i \in ProbesOf(toolCalls[c].command, toolCalls[c].cwd) :
              probeLog[i].info = toolCalls[c].ret

\* the same command was asked for in two directories: both calls spawned a
\* probe, the probes ended differently and each caller got its own result
C30_Witness ==
  \E c1, c2 \in Callers :
    /\ toolCalls[c1].pc = "returned" /\ toolCalls[c2].pc = "returned"
    /\ toolCalls[c1].command = toolCalls[c2].command
    /\ toolCalls[c1].cwd # toolCalls[c2].cwd
    /\ toolCalls[c1].ret.available /\ ~toolCalls[c2].ret.available
    /\ Len(probeLog) = 2
    /\ \A i \in 1..Len(callLog) : callLog[i].spawned

====
